---- MODULE Spec2Model ----
(***************************************************************************)
(* A model of the ag-lang compiler pipeline (crates ag-lexer, ag-parser,   *)
(* ag-checker, ag-codegen, ag-cli).  Every component is a state machine    *)
(* over its own variables; a specification of one component leaves the     *)
(* variables of the others at their initial value.                         *)
(*                                                                         *)
(*   SpecLex      Lexer::tokenize over bounded byte strings                *)
(*   SpecParse    Parser::parse_module / parse_block error recovery        *)
(*   SpecBuild    ag-cli cmd_build stage sequencing                        *)
(*   SpecCheck    Checker::check_module over bounded modules               *)
(*   SpecCompat   Checker::type_compatible over bounded types              *)
(*   SpecCodegen  Translator::translate_module import synthesis            *)
(*   SpecLower    translate_fn_decl and the JavaScript it emits, run        *)
(*   SpecStd      ag-cli resolve_std_imports                                *)
(*   SpecAnyLexer the lexer under tokenize and under parse_dsl_block        *)
(*   SpecTpl      Parser::parse_template_string                             *)
(*   SpecServer   ag-dsl-server validate                                    *)
(*   SpecPrompt   ag-dsl-prompt lex, parse and validate                     *)
(*   SpecDsl      parse: tokenize, then parse_dsl_block on an inline block  *)
(*   SpecCapture  parse_dsl_block: the sub-parser of a #{...} capture        *)
(*   SpecPattern  an enum pattern: bind_pattern and the emitted bindings    *)
(*   SpecAsync    a function with await: check_fn_decl, translate_fn_decl   *)
(*   SpecScope    Checker::check_module on modules whose items open scopes  *)
(*   SpecCall     Checker::check_module on modules that call a function     *)
(*   SpecRecompile  translate_module twice on the same module               *)
(***************************************************************************)
EXTENDS Integers, Sequences, FiniteSets, TLC

VARIABLES
    \* ---- ag-lexer: struct Lexer, and the Vec<Token> tokenize builds
    source,                 \* Lexer.source / Lexer.bytes (a sequence of bytes)
    pos,                    \* Lexer.pos
    template_depth_stack,   \* Lexer.template_depth_stack
    dsl_raw_mode,           \* Lexer.dsl_raw_mode
    dsl_capture_depth,      \* Lexer.dsl_capture_depth
    dsl_block_start_pos,    \* Lexer.dsl_block_start_pos
    tokens,                 \* the token vector of tokenize
    lex_pc,                 \* "run" | "done" (tokenize returned) | "panic"
    \* ---- ag-parser: struct Parser, and the item vector of parse_module
    p_tokens,               \* Parser.tokens (token kinds, the last one Eof)
    p_pos,                  \* Parser.pos
    p_diagnostics,          \* Parser.diagnostics (the token index of each)
    p_items,                \* the items of parse_module (their kinds)
    p_pc,                   \* "run" | "done" (parse_module returned) |
                            \* "hang" (inside a loop that never ends)
    \* ---- ag-cli: cmd_build
    b_in,                   \* what each stage of this run reports
    b_pc,                   \* the stage cmd_build is about to run, or how it ended
    b_log,                  \* the stages run so far, in order
    b_written,              \* fs::write has created the output file
    \* ---- ag-checker: struct Checker, and the loops of check_module
    c_module,               \* the module being checked (its items)
    c_scope,                \* Checker.scope (innermost frame last)
    c_diagnostics,          \* Checker.diagnostics
    c_type_aliases,         \* Checker.type_aliases
    c_in_async,             \* Checker.in_async
    c_pc,                   \* "register" | "check" | "done"
    c_i,                    \* the index of the next item of the running pass
    \* ---- ag-checker: one call of type_compatible
    tc_expected, tc_actual, tc_result, tc_pc,
    \* ---- ag-codegen: translate_module
    g_module,               \* the module being translated
    g_imports,              \* the import declarations emitted
    g_body,                 \* the import declarations of the emitted body
    g_prev,                 \* g_body of the compilation before this one
    g_pc,                   \* "run" | "done" | "again"
    \* ---- ag-codegen: one function lowered to JavaScript, and one call of it
    x_fn,                   \* FnDecl.body.stmts of the function
    x_arg,                  \* the value of its parameter `v` in the call
    x_js,                   \* the statements translate_fn_decl emits
    x_out,                  \* how the call completes
    x_pc,                   \* "run" | "lowered" | "done"
    \* ---- ag-cli: resolve_std_imports
    s_in,                   \* module.items when the function is called
    s_items,                \* module.items
    s_i,                    \* the next element of std_imports in the loop
    s_injected,             \* injected_items
    s_errors,               \* errors
    s_pc,                   \* "run" | "ok" | "err" (the Result returned)
    \* ---- ag-parser: parse_primary at a template token
    t_tokens,               \* Parser.tokens (kind and text of each, Eof left out)
    t_pos,                  \* Parser.pos
    t_diagnostics,          \* Parser.diagnostics (the token index of each)
    t_parts,                \* parts of parse_template_string
    t_pc,                   \* "primary" | "loop" | "some" (a node is
                            \* returned) | "none"
    \* ---- ag-dsl-server: validate
    v_template,             \* the ServerTemplate (its routes and port)
    v_diagnostics,          \* the diagnostics returned
    v_pc,                   \* "run" | "done"
    \* ---- ag-dsl-prompt: PromptDslHandler::handle on an inline block
    pr_parts,               \* the DslParts of the block
    pr_tokens,              \* the tokens lex returns
    pr_sections,            \* PromptTemplate.sections
    pr_diagnostics,         \* the diagnostics of parse, then of validate
    pr_pc,                  \* "lex" | "parse" | "validate" | "done" |
                            \* "err" (parse returned Err)
    \* ---- ag-parser: parse, up to the end of parse_dsl_block
    d_tokens,               \* Parser.tokens (the comments filtered out)
    d_pos,                  \* Parser.pos
    d_dsl_tokens,           \* dsl_tokens of parse_dsl_block
    d_end_byte,             \* end_byte of parse_dsl_block
    d_pc,                   \* "lex" | "block" | "some" | "none"
    \* ---- ag-parser: the capture branch of parse_dsl_block
    cp_tokens,              \* capture_tokens (token kinds, the last one Eof)
    cp_sub_diagnostics,     \* sub_parser.diagnostics
    cp_diagnostics,         \* self.diagnostics of the outer parser
    cp_parts,               \* the parts pushed for the capture
    cp_pc,                  \* "run" | "done" | "hang"
    \* ---- an enum pattern in the checker and in the code generator
    pb_subject_ty,          \* subject_ty of bind_pattern
    pb_pattern,             \* the pattern of the match arm
    pb_scope,               \* Checker.scope after bind_pattern
    pb_js,                  \* translate_pattern_to_condition's result
    pb_read,                \* the value the emitted code reads per binding
    pb_pc,                  \* "run" | "bound" | "lowered" | "done"
    \* ---- an async function through the checker and the code generator
    a_fn,                   \* the FnDecl
    a_diagnostics,          \* Checker.diagnostics after check_fn_decl
    a_js,                   \* the swc::Function: is_async and the body
    a_pc                    \* "run" | "checked" | "rejected" | "done"

lexVars == <<source, pos, template_depth_stack, dsl_raw_mode, dsl_capture_depth,
             dsl_block_start_pos, tokens, lex_pc>>

parseVars == <<p_tokens, p_pos, p_diagnostics, p_items, p_pc>>

buildVars == <<b_in, b_pc, b_log, b_written>>

checkVars == <<c_module, c_scope, c_diagnostics, c_type_aliases, c_in_async,
               c_pc, c_i>>

compatVars == <<tc_expected, tc_actual, tc_result, tc_pc>>

codegenVars == <<g_module, g_imports, g_body, g_prev, g_pc>>

lowerVars == <<x_fn, x_arg, x_js, x_out, x_pc>>

stdVars == <<s_in, s_items, s_i, s_injected, s_errors, s_pc>>

tplVars == <<t_tokens, t_pos, t_diagnostics, t_parts, t_pc>>

serverVars == <<v_template, v_diagnostics, v_pc>>

promptVars == <<pr_parts, pr_tokens, pr_sections, pr_diagnostics, pr_pc>>

dslVars == <<d_tokens, d_pos, d_dsl_tokens, d_end_byte, d_pc>>
captureVars == <<cp_tokens, cp_sub_diagnostics, cp_diagnostics, cp_parts, cp_pc>>
patternVars == <<pb_subject_ty, pb_pattern, pb_scope, pb_js, pb_read, pb_pc>>
asyncVars == <<a_fn, a_diagnostics, a_js, a_pc>>

vars == <<lexVars, parseVars, buildVars, checkVars, compatVars,
    codegenVars, lowerVars, stdVars, tplVars, serverVars, promptVars,
    dslVars, captureVars, patternVars, asyncVars>>

\* the variables of the other components
notLex == <<parseVars, buildVars, checkVars, compatVars, codegenVars,
    lowerVars, stdVars, tplVars, serverVars, promptVars, dslVars,
    captureVars, patternVars, asyncVars>>
notParse == <<lexVars, buildVars, checkVars, compatVars, codegenVars,
    lowerVars, stdVars, tplVars, serverVars, promptVars, dslVars,
    captureVars, patternVars, asyncVars>>
notBuild == <<lexVars, parseVars, checkVars, compatVars, codegenVars,
    lowerVars, stdVars, tplVars, serverVars, promptVars, dslVars,
    captureVars, patternVars, asyncVars>>
notCheck == <<lexVars, parseVars, buildVars, compatVars, codegenVars,
    lowerVars, stdVars, tplVars, serverVars, promptVars, dslVars,
    captureVars, patternVars, asyncVars>>
notCompat == <<lexVars, parseVars, buildVars, checkVars, codegenVars,
    lowerVars, stdVars, tplVars, serverVars, promptVars, dslVars,
    captureVars, patternVars, asyncVars>>
notCodegen == <<lexVars, parseVars, buildVars, checkVars, compatVars,
    lowerVars, stdVars, tplVars, serverVars, promptVars, dslVars,
    captureVars, patternVars, asyncVars>>
notLower == <<lexVars, parseVars, buildVars, checkVars, compatVars,
    codegenVars, stdVars, tplVars, serverVars, promptVars, dslVars,
    captureVars, patternVars, asyncVars>>
notStd == <<lexVars, parseVars, buildVars, checkVars, compatVars,
    codegenVars, lowerVars, tplVars, serverVars, promptVars, dslVars,
    captureVars, patternVars, asyncVars>>
notTpl == <<lexVars, parseVars, buildVars, checkVars, compatVars,
    codegenVars, lowerVars, stdVars, serverVars, promptVars, dslVars,
    captureVars, patternVars, asyncVars>>
notServer == <<lexVars, parseVars, buildVars, checkVars, compatVars,
    codegenVars, lowerVars, stdVars, tplVars, promptVars, dslVars,
    captureVars, patternVars, asyncVars>>
notPrompt == <<lexVars, parseVars, buildVars, checkVars, compatVars,
    codegenVars, lowerVars, stdVars, tplVars, serverVars, dslVars,
    captureVars, patternVars, asyncVars>>
notDsl == <<lexVars, parseVars, buildVars, checkVars, compatVars,
    codegenVars, lowerVars, stdVars, tplVars, serverVars, promptVars,
    captureVars, patternVars, asyncVars>>
notCapture == <<lexVars, parseVars, buildVars, checkVars, compatVars,
    codegenVars, lowerVars, stdVars, tplVars, serverVars, promptVars,
    dslVars, patternVars, asyncVars>>
notPattern == <<lexVars, parseVars, buildVars, checkVars, compatVars,
    codegenVars, lowerVars, stdVars, tplVars, serverVars, promptVars,
    dslVars, captureVars, asyncVars>>
notAsync == <<lexVars, parseVars, buildVars, checkVars, compatVars,
    codegenVars, lowerVars, stdVars, tplVars, serverVars, promptVars,
    dslVars, captureVars, patternVars>>

\* ======================================================================
\* Small helpers
\* ======================================================================

Last(s) == s[Len(s)]

Min(a, b) == IF a <= b THEN a ELSE b

Front(s) == SubSeq(s, 1, Len(s) - 1)

SetLast(s, v) == [s EXCEPT ![Len(s)] = v]

\* All sequences over S of length 0..n
SeqsUpTo(S, n) == UNION {[1..k -> S] : k \in 0..n}

RECURSIVE Flatten(_)
Flatten(ss) == IF ss = <<>> THEN <<>> ELSE Head(ss) \o Flatten(Tail(ss))

\* ======================================================================
\* ag-lexer
\* ======================================================================
\* A byte is named by a string.  The byte universe of the model:
\*   "a" a letter other than e/E   "e" the letter e      "1" a digit
\*   "q" the double quote          "bs" backslash        "bt" backtick
\*   "dl" $     "lb" {     "rb" }     "sl" /     "st" *     "eq" =
\*   "sc" ;     "dot" .    "hs" #     "x" an ASCII byte no token starts with
\*   "sp" space "tab"      "cr" \r    "nl" \n
\*   "u1" the first and "u2" the second byte of a two-byte UTF-8 character
\* None is what peek() returns at the end of the input.

None == "EOF"

Peek(src, p) == IF p < Len(src) THEN src[p + 1] ELSE None

PeekAt(src, p, offset) == Peek(src, p + offset)

\* str::is_char_boundary: slicing a str anywhere else panics
IsCharBoundary(src, i) ==
    \/ i = 0
    \/ i = Len(src)
    \/ (i < Len(src) /\ src[i + 1] # "u2")

SliceOk(src, a, b) == a <= b /\ IsCharBoundary(src, a) /\ IsCharBoundary(src, b)

\* The result of one lexing function: the token and the position after it.
\* panic is TRUE when the Rust code would panic while producing it.
LexResult(kind, start, p, ok) ==
    [kind |-> kind, start |-> start, end |-> p, pos |-> p, panic |-> ~ok]

RECURSIVE skip_whitespace(_, _)
skip_whitespace(src, p) ==
    IF Peek(src, p) \in {"sp", "tab", "cr", "nl"}
    THEN skip_whitespace(src, p + 1)
    ELSE p

RECURSIVE skip_whitespace_no_newline(_, _)
skip_whitespace_no_newline(src, p) ==
    IF Peek(src, p) \in {"sp", "tab", "cr"}
    THEN skip_whitespace_no_newline(src, p + 1)
    ELSE p

IsAsciiDigit(ch) == ch = "1"

IsIdentByte(ch) == ch \in {"a", "e", "1"}

RECURSIVE ScanIdent(_, _)
ScanIdent(src, p) == IF IsIdentByte(Peek(src, p)) THEN ScanIdent(src, p + 1) ELSE p

RECURSIVE ScanDigits(_, _)
ScanDigits(src, p) == IF IsAsciiDigit(Peek(src, p)) THEN ScanDigits(src, p + 1) ELSE p

lex_ident_or_keyword(src, start) ==
    LET p == ScanIdent(src, start)
    IN  LexResult("Ident", start, p, SliceOk(src, start, p))

lex_number(src, start) ==
    LET p1 == ScanDigits(src, start)
        frac == /\ Peek(src, p1) = "dot"
                /\ PeekAt(src, p1, 1) # "dot"
                /\ IsAsciiDigit(PeekAt(src, p1, 1))
        p2 == IF frac THEN ScanDigits(src, p1 + 1) ELSE p1
        expo == Peek(src, p2) = "e"
        p3 == IF expo THEN ScanDigits(src, p2 + 1) ELSE p2
    IN  LexResult(IF frac \/ expo THEN "FloatLiteral" ELSE "IntLiteral",
                  start, p3, SliceOk(src, start, p3))

\* advance(): one byte further, unless at the end of the input
Advance(src, p) == IF p < Len(src) THEN p + 1 ELSE p

RECURSIVE StringLoop(_, _, _, _)
StringLoop(src, start, p, quote) ==
    LET ch == Peek(src, p)
    IN  IF ch = None \/ ch = "nl"
        THEN LexResult("Error", start, p, SliceOk(src, start, p))
        ELSE IF ch = "bs"
        THEN StringLoop(src, start, Advance(src, p + 1), quote)
        ELSE IF ch = quote
        THEN LexResult("StringLiteral", start, p + 1, SliceOk(src, start, p + 1))
        ELSE StringLoop(src, start, p + 1, quote)

lex_string(src, start, quote) == StringLoop(src, start, start + 1, quote)

\* The common loop of lex_template_start and lex_template_continuation.
\* closed is the kind at the closing backtick, opened the kind at "${"
\* (the caller pushes the depth counter when the result is of kind opened).
RECURSIVE TemplateLoop(_, _, _, _, _)
TemplateLoop(src, start, p, closed, opened) ==
    LET ch == Peek(src, p)
    IN  IF ch = None
        THEN LexResult("Error", start, p, SliceOk(src, start, p))
        ELSE IF ch = "bt"
        THEN LexResult(closed, start, p + 1, SliceOk(src, start, p + 1))
        ELSE IF ch = "dl" /\ PeekAt(src, p, 1) = "lb"
        THEN LexResult(opened, start, p + 2, SliceOk(src, start, p + 2))
        ELSE IF ch = "bs"
        THEN TemplateLoop(src, start, Advance(src, p + 1), closed, opened)
        ELSE TemplateLoop(src, start, p + 1, closed, opened)

lex_template_start(src, start) ==
    TemplateLoop(src, start, start + 1, "TemplateNoSub", "TemplateHead")

\* called with pos just after the "}" that closed the interpolation
lex_template_continuation(src, p) ==
    TemplateLoop(src, p - 1, p, "TemplateTail", "TemplateMiddle")

RECURSIVE ScanToNewline(_, _)
ScanToNewline(src, p) ==
    IF Peek(src, p) \notin {None, "nl"} THEN ScanToNewline(src, p + 1) ELSE p

RECURSIVE BlockCommentLoop(_, _, _)
BlockCommentLoop(src, p, depth) ==
    IF depth = 0 \/ Peek(src, p) = None
    THEN p
    ELSE IF Peek(src, p) = "sl" /\ PeekAt(src, p, 1) = "st"
    THEN BlockCommentLoop(src, p + 2, depth + 1)
    ELSE IF Peek(src, p) = "st" /\ PeekAt(src, p, 1) = "sl"
    THEN BlockCommentLoop(src, p + 2, depth - 1)
    ELSE BlockCommentLoop(src, p + 1, depth)

lex_slash(src, start) ==
    LET p == start + 1
        ch == Peek(src, p)
    IN  IF ch = "sl"
        THEN LET is_doc == PeekAt(src, p, 1) = "sl" /\ PeekAt(src, p, 2) # "sl"
                 e == ScanToNewline(src, p + 1)
             IN  LexResult(IF is_doc THEN "DocComment" ELSE "LineComment",
                           start, e, SliceOk(src, start, e))
        ELSE IF ch = "st"
        THEN LET e == BlockCommentLoop(src, p + 1, 1)
             IN  LexResult("BlockComment", start, e, SliceOk(src, start, e))
        ELSE IF ch = "eq"
        THEN LexResult("SlashEq", start, p + 1, TRUE)
        ELSE LexResult("Slash", start, p, TRUE)

\* len_utf8 of the character that starts with byte ch
LenUtf8(ch) == IF ch = "u1" THEN 2 ELSE 1

\* lex_punct_or_operator on a non-ASCII character steps over a single byte
NonAsciiEnd_OneByte(src, start) == start + 1

\* the position after the non-ASCII character at start: pos += ch_char.len_utf8()
NonAsciiEnd(src, start) == start + LenUtf8(Peek(src, start))

\* Without the brace-depth bookkeeping, which next_token's caller applies:
\* see PunctDepth.
lex_punct_or_operator(src, start) ==
    LET ch == Peek(src, start)
    IN  IF ~IsCharBoundary(src, start)
        THEN LexResult("Error", start, start, FALSE)   \* slicing inside a character
        ELSE IF ch = "u1"
        THEN LexResult("Error", start, NonAsciiEnd(src, start), TRUE)
        ELSE IF ch = "lb" THEN LexResult("LBrace", start, start + 1, TRUE)
        ELSE IF ch = "rb" THEN LexResult("RBrace", start, start + 1, TRUE)
        ELSE IF ch = "sc" THEN LexResult("Semi", start, start + 1, TRUE)
        ELSE IF ch = "dot"
        THEN IF PeekAt(src, start, 1) = "dot"
             THEN IF PeekAt(src, start, 2) = "dot"
                  THEN LexResult("DotDotDot", start, start + 3, TRUE)
                  ELSE LexResult("DotDot", start, start + 2, TRUE)
             ELSE LexResult("Dot", start, start + 1, TRUE)
        ELSE IF ch = "st"
        THEN IF PeekAt(src, start, 1) = "st"
             THEN LexResult("StarStar", start, start + 2, TRUE)
             ELSE IF PeekAt(src, start, 1) = "eq"
             THEN LexResult("StarEq", start, start + 2, TRUE)
             ELSE LexResult("Star", start, start + 1, TRUE)
        ELSE IF ch = "eq"
        THEN IF PeekAt(src, start, 1) = "eq"
             THEN LexResult("EqEq", start, start + 2, TRUE)
             ELSE LexResult("Eq", start, start + 1, TRUE)
        ELSE LexResult("Error", start, start + 1, SliceOk(src, start, start + 1))

\* lex_punct_or_operator's update of the innermost template brace depth
PunctDepth(stack, kind) ==
    IF stack = <<>> THEN stack
    ELSE IF kind = "LBrace" THEN SetLast(stack, Last(stack) + 1)
    ELSE IF kind = "RBrace" /\ Last(stack) > 0 THEN SetLast(stack, Last(stack) - 1)
    ELSE stack

\* is_backticks_at_line_start: only blanks between the line start and p
RECURSIVE is_backticks_at_line_start(_, _)
is_backticks_at_line_start(src, i) ==
    IF i = 0 THEN TRUE
    ELSE IF src[i] = "nl" THEN TRUE
    ELSE IF src[i] \notin {"sp", "tab", "cr"} THEN FALSE
    ELSE is_backticks_at_line_start(src, i - 1)

\* A lexing result together with the lexer's mode fields after it
WithMode(r, stack, raw, cap) ==
    [kind |-> r.kind, start |-> r.start, end |-> r.end, pos |-> r.pos,
     panic |-> r.panic, stack |-> stack, raw |-> raw, cap |-> cap]

RECURSIVE DslRawLoop(_, _, _, _, _)
DslRawLoop(src, start, p, block_start, stack) ==
    LET ch == Peek(src, p)
        textEmpty == p = start
        text == WithMode(LexResult("DslText", start, p, SliceOk(src, start, p)),
                         stack, TRUE, 0)
    IN  IF ch = None
        THEN IF ~textEmpty THEN text
             ELSE WithMode(LexResult("Error", block_start, p, TRUE), stack, FALSE, 0)
        ELSE IF ch = "hs" /\ PeekAt(src, p, 1) = "lb"
        THEN IF ~textEmpty THEN text
             ELSE WithMode(LexResult("DslCaptureStart", p, p + 2, TRUE), stack, FALSE, 1)
        ELSE IF ch = "bt" /\ PeekAt(src, p, 1) = "bt" /\ PeekAt(src, p, 2) = "bt"
        THEN IF is_backticks_at_line_start(src, p)
             THEN IF ~textEmpty THEN text
                  ELSE WithMode(LexResult("DslBlockEnd", p, p + 3, TRUE), stack, FALSE, 0)
             ELSE DslRawLoop(src, start, p + 1, block_start, stack)
        ELSE IF ~IsCharBoundary(src, p)
        THEN WithMode(LexResult("Error", start, p, FALSE), stack, TRUE, 0)
        ELSE DslRawLoop(src, start, p + LenUtf8(ch), block_start, stack)

lex_dsl_raw(src, p, block_start, stack) == DslRawLoop(src, p, p, block_start, stack)

\* enter_dsl_raw_mode with the newline after the fence consumed even when
\* the source ends there
enter_dsl_raw_mode_PastEof(src, p0, stack, cap) ==
    LET start == skip_whitespace_no_newline(src, p0)
        e == ScanToNewline(src, start + 3) + 1
    IN  IF Peek(src, start) = "bt" /\ PeekAt(src, start, 1) = "bt"
           /\ PeekAt(src, start, 2) = "bt"
        THEN WithMode(LexResult("DslBlockStart", start, e, TRUE), stack, TRUE, cap)
        ELSE WithMode(LexResult("Error", start, start, TRUE), stack, FALSE, cap)

\* enter_dsl_raw_mode: the opening fence and the rest of its line
enter_dsl_raw_mode(src, p0, stack, cap) ==
    LET start == skip_whitespace_no_newline(src, p0)
        nl == ScanToNewline(src, start + 3)
        e == IF Peek(src, nl) = "nl" THEN nl + 1 ELSE nl
    IN  IF Peek(src, start) = "bt" /\ PeekAt(src, start, 1) = "bt"
           /\ PeekAt(src, start, 2) = "bt"
        THEN WithMode(LexResult("DslBlockStart", start, e, SliceOk(src, start, e)),
                      stack, TRUE, cap)
        ELSE WithMode(LexResult("Error", start, start, TRUE), stack, FALSE, cap)

\* The dispatch at the end of next_token, from the first non-blank byte
Dispatch(src, p, stack, cap) ==
    LET start == skip_whitespace(src, p)
        ch == Peek(src, start)
    IN  IF ch = None
        THEN WithMode(LexResult("Eof", start, start, TRUE), stack, FALSE, cap)
        ELSE IF ch \in {"a", "e"}
        THEN WithMode(lex_ident_or_keyword(src, start), stack, FALSE, cap)
        ELSE IF ch = "1"
        THEN WithMode(lex_number(src, start), stack, FALSE, cap)
        ELSE IF ch = "q"
        THEN WithMode(lex_string(src, start, "q"), stack, FALSE, cap)
        ELSE IF ch = "bt"
        THEN LET r == lex_template_start(src, start)
             IN  WithMode(r, IF r.kind = "TemplateHead" THEN Append(stack, 0) ELSE stack,
                          FALSE, cap)
        ELSE IF ch = "sl"
        THEN WithMode(lex_slash(src, start), stack, FALSE, cap)
        ELSE LET r == lex_punct_or_operator(src, start)
             IN  WithMode(r, PunctDepth(stack, r.kind), FALSE, cap)

\* Lexer::next_token, from position p with the given mode fields
next_token(src, p, stack, raw, cap, block_start) ==
    IF raw
    THEN lex_dsl_raw(src, p, block_start, stack)
    ELSE LET \* DSL capture mode: brace tracking in front of the next token
             p1 == IF cap > 0 THEN skip_whitespace(src, p) ELSE p
             cap1 == IF cap > 0 /\ Peek(src, p1) = "lb" THEN cap + 1
                     ELSE IF cap > 0 /\ Peek(src, p1) = "rb" THEN cap - 1
                     ELSE cap
         IN  IF cap > 0 /\ Peek(src, p1) = "rb" /\ cap1 = 0
             THEN WithMode(LexResult("DslCaptureEnd", p1, p1 + 1, TRUE), stack, TRUE, 0)
             ELSE IF stack # <<>> /\ Last(stack) = 0 /\ Peek(src, p1) = "rb"
             THEN LET r == lex_template_continuation(src, p1 + 1)
                      popped == Front(stack)
                  IN  WithMode(r, IF r.kind = "TemplateMiddle"
                                  THEN Append(popped, 0) ELSE popped,
                               FALSE, cap1)
             ELSE Dispatch(src, p1, stack, cap1)

\* The token kept in the token vector
Token(r) == [kind |-> r.kind, start |-> r.start, end |-> r.end]

\* ---- Lexer::tokenize as a state machine: one action per loop iteration

\* Source fragments the inputs of SpecLex are built from: single bytes, and
\* the multi-byte groups that open or close a lexical construct.
LexFragments ==
    { <<"a">>, <<"q">>, <<"bs">>, <<"bt">>, <<"bt", "dl", "lb">>, <<"dl", "lb">>,
      <<"lb">>, <<"rb">>,
      <<"sl", "sl">>, <<"sl", "st">>, <<"st", "sl">>, <<"nl">>, <<"cr">>,
      <<"sp">>, <<"u1", "u2">>, <<"x">> }

MaxFrags == 3

LexSources == {Flatten(fs) : fs \in SeqsUpTo(LexFragments, MaxFrags)}

LexInit ==
    /\ source \in LexSources
    /\ pos = 0
    /\ template_depth_stack = <<>>
    /\ dsl_raw_mode = FALSE
    /\ dsl_capture_depth = 0
    /\ dsl_block_start_pos = 0
    /\ tokens = <<>>
    /\ lex_pc = "run"

\* a specification of another component leaves the lexer alone
LexIdle ==
    /\ source = <<>>
    /\ pos = 0
    /\ template_depth_stack = <<>>
    /\ dsl_raw_mode = FALSE
    /\ dsl_capture_depth = 0
    /\ dsl_block_start_pos = 0
    /\ tokens = <<>>
    /\ lex_pc = "idle"

\* one iteration of tokenize's loop: next_token, push, break on Eof
Tokenize ==
    /\ lex_pc = "run"
    /\ LET r == next_token(source, pos, template_depth_stack, dsl_raw_mode,
                           dsl_capture_depth, dsl_block_start_pos)
       IN  IF r.panic
           THEN /\ lex_pc' = "panic"
                /\ UNCHANGED <<pos, template_depth_stack, dsl_raw_mode,
                               dsl_capture_depth, tokens>>
           ELSE /\ pos' = r.pos
                /\ template_depth_stack' = r.stack
                /\ dsl_raw_mode' = r.raw
                /\ dsl_capture_depth' = r.cap
                /\ tokens' = Append(tokens, Token(r))
                /\ lex_pc' = IF r.kind = "Eof" THEN "done" ELSE "run"
    /\ UNCHANGED <<source, dsl_block_start_pos>>
    /\ UNCHANGED notLex

\* ======================================================================
\* ag-parser: error recovery of parse_module and parse_block
\* ======================================================================
\* The parser is modelled over token kinds.  The inputs are token vectors
\* over PTokenKinds; the functions below are the parser's functions
\* restricted to those kinds (on them, `pub` is never followed by `fn`,
\* `{` never opens an object literal, and `=` is the only infix operator).
\* A result holds: ok (Some/None), the position, the diagnostics, and hang,
\* TRUE when the call never returns.

PTokenKinds == {"Ident", "Semi", "LBrace", "RBrace", "Let", "Eq", "Pub"}

\* the kinds synchronize stops at without consuming
SyncStops ==
    {"RBrace", "Fn", "Let", "Mut", "Const", "Struct", "Enum", "Type", "Import",
     "Pub", "For", "While", "Try", "If", "Match", "Ret", "At", "Extern"}

PRes(ok, p, d, hang) == [ok |-> ok, pos |-> p, diags |-> d, hang |-> hang]

\* Parser::peek
PKind(toks, p) == IF p < Len(toks) THEN toks[p + 1] ELSE "Eof"

\* Parser::advance
PAdvance(toks, p) == IF p < Len(toks) THEN p + 1 ELSE p

\* Parser::error / the push in expect: a diagnostic at peek_token()
PError(toks, p, d) == Append(d, Min(p, Len(toks) - 1))

expect(toks, p, d, kind) ==
    IF PKind(toks, p) = kind
    THEN PRes(TRUE, PAdvance(toks, p), d, FALSE)
    ELSE PRes(FALSE, p, PError(toks, p, d), FALSE)

RECURSIVE synchronize(_, _)
synchronize(toks, p) ==
    LET k == PKind(toks, p)
    IN  IF k = "Eof" THEN p
        ELSE IF k = "Semi" THEN PAdvance(toks, p)
        ELSE IF k \in SyncStops THEN p
        ELSE synchronize(toks, PAdvance(toks, p))

\* The parsing functions call one another through Parse, which dispatches
\* on the function's name (min_bp is read by parse_expr alone).
RECURSIVE Parse(_, _, _, _, _)

\* the loop of parse_expr after the prefix: `=` is (2, Assoc::Right)
ExprLoop(toks, p, d, min_bp) ==
    IF PKind(toks, p) = "Eq" /\ 2 >= min_bp
    THEN LET rhs == Parse("parse_expr", toks, PAdvance(toks, p), d, 2)
         IN  IF ~rhs.ok THEN rhs ELSE Parse("ExprLoop", toks, rhs.pos, rhs.diags, min_bp)
    ELSE PRes(TRUE, p, d, FALSE)

parse_expr(toks, p, d, min_bp) ==
    LET lhs == Parse("parse_primary", toks, p, d, 0)
    IN  IF ~lhs.ok THEN lhs ELSE Parse("ExprLoop", toks, lhs.pos, lhs.diags, min_bp)

parse_primary(toks, p, d) ==
    LET k == PKind(toks, p)
    IN  IF k = "Ident" THEN PRes(TRUE, PAdvance(toks, p), d, FALSE)
        ELSE IF k = "LBrace"
        THEN IF PKind(toks, p + 1) = "RBrace"
             THEN PRes(TRUE, p + 2, d, FALSE)          \* the empty block
             ELSE Parse("parse_block", toks, p, d, 0)            \* self.pos = saved
        ELSE PRes(FALSE, p, PError(toks, p, d), FALSE) \* "unexpected token"

parse_var_decl(toks, p, d) ==
    LET name == expect(toks, PAdvance(toks, p), d, "Ident")
        eq == expect(toks, name.pos, name.diags, "Eq")
        init == parse_expr(toks, eq.pos, eq.diags, 0)
    IN  IF ~name.ok THEN name
        ELSE IF ~eq.ok THEN eq
        ELSE IF ~init.ok THEN init
        ELSE IF PKind(toks, init.pos) = "Semi"
        THEN PRes(TRUE, PAdvance(toks, init.pos), init.diags, FALSE)
        ELSE init

\* one iteration of parse_block's loop at a token other than `}` and Eof
BlockIter(toks, p, d) ==
    IF PKind(toks, p) = "Let"
    THEN LET r == Parse("parse_var_decl", toks, p, d, 0)
         IN  IF r.ok \/ r.hang THEN r
             ELSE PRes(FALSE, synchronize(toks, r.pos), r.diags, FALSE)
    ELSE LET r == Parse("parse_expr", toks, p, d, 0)
         IN  IF r.hang THEN r
             ELSE IF r.ok
             THEN IF PKind(toks, r.pos) = "Semi"
                  THEN PRes(TRUE, PAdvance(toks, r.pos), r.diags, FALSE)
                  ELSE r
             ELSE PRes(FALSE, synchronize(toks, r.pos), r.diags, FALSE)

\* parse_block's loop.  An iteration that leaves the position where it was
\* is repeated for ever: the loop reads nothing but the tokens and pos.
BlockLoop(toks, p, d) ==
    IF PKind(toks, p) \in {"RBrace", "Eof"}
    THEN expect(toks, p, d, "RBrace")
    ELSE LET r == BlockIter(toks, p, d)
         IN  IF r.hang THEN r
             ELSE IF r.pos = p THEN PRes(FALSE, p, r.diags, TRUE)
             ELSE Parse("BlockLoop", toks, r.pos, r.diags, 0)

parse_block(toks, p, d) ==
    LET open == expect(toks, p, d, "LBrace")
    IN  IF ~open.ok THEN open ELSE Parse("BlockLoop", toks, open.pos, open.diags, 0)

parse_item(toks, p, d) ==
    LET k == PKind(toks, p)
    IN  IF k = "Let" THEN Parse("parse_var_decl", toks, p, d, 0)
        ELSE IF k = "Pub"
        THEN PRes(FALSE, PAdvance(toks, p), PError(toks, PAdvance(toks, p), d), FALSE)
        ELSE LET r == Parse("parse_expr", toks, p, d, 0)
             IN  IF r.ok /\ PKind(toks, r.pos) = "Semi"
                 THEN PRes(TRUE, PAdvance(toks, r.pos), r.diags, FALSE)
                 ELSE r

Parse(fn, toks, p, d, min_bp) ==
    CASE fn = "parse_expr" -> parse_expr(toks, p, d, min_bp)
      [] fn = "ExprLoop" -> ExprLoop(toks, p, d, min_bp)
      [] fn = "parse_primary" -> parse_primary(toks, p, d)
      [] fn = "parse_var_decl" -> parse_var_decl(toks, p, d)
      [] fn = "parse_block" -> parse_block(toks, p, d)
      [] fn = "BlockLoop" -> BlockLoop(toks, p, d)

ItemKind(toks, p) == IF PKind(toks, p) = "Let" THEN "VarDecl" ELSE "ExprStmt"

\* ---- parse_module as a state machine: one action per loop iteration

MaxToks == 4

\* the diagnostics vector grows without bound when the parser does not
\* advance; the model stops the parser at this many
MaxDiags == 6

ParseInputs == {Append(ts, "Eof") : ts \in SeqsUpTo(PTokenKinds, MaxToks)}

ParseInit ==
    /\ p_tokens \in ParseInputs
    /\ p_pos = 0
    /\ p_diagnostics = <<>>
    /\ p_items = <<>>
    /\ p_pc = "run"

ParseIdle ==
    /\ p_tokens = <<>>
    /\ p_pos = 0
    /\ p_diagnostics = <<>>
    /\ p_items = <<>>
    /\ p_pc = "idle"

\* an iteration of parse_module's loop: parse_item, then push or synchronize
ParseItemStep ==
    /\ p_pc = "run"
    /\ PKind(p_tokens, p_pos) # "Eof"
    /\ Len(p_diagnostics) < MaxDiags
    /\ LET r == parse_item(p_tokens, p_pos, p_diagnostics)
       IN  /\ p_diagnostics' = r.diags
           /\ IF r.hang
              THEN /\ p_pc' = "hang"
                   /\ UNCHANGED <<p_pos, p_items>>
              ELSE IF r.ok
              THEN /\ p_pos' = r.pos
                   /\ p_items' = Append(p_items, ItemKind(p_tokens, p_pos))
                   /\ p_pc' = "run"
              ELSE /\ p_pos' = synchronize(p_tokens, r.pos)
                   /\ UNCHANGED <<p_items, p_pc>>
    /\ UNCHANGED p_tokens
    /\ UNCHANGED notParse

\* the loop of parse_module ends at Eof
ParseModuleReturn ==
    /\ p_pc = "run"
    /\ PKind(p_tokens, p_pos) = "Eof"
    /\ p_pc' = "done"
    /\ UNCHANGED <<p_tokens, p_pos, p_diagnostics, p_items>>
    /\ UNCHANGED notParse

\* ======================================================================
\* ag-cli: cmd_build  (src/crates/ag-cli/src/main.rs)
\* ======================================================================

\* the stages of cmd_build in the order of its statements
BuildStages == <<"parse", "resolve", "check", "codegen", "write">>

\* `!parsed.diagnostics.is_empty()`, `if let Err(errs)`,
\* `!checked.diagnostics.is_empty()`: the stage reported n errors
StageFailed_Never(n) == FALSE

StageFailed(n) == n > 0

MaxStageErrors == 2

\* what the stages of one run report: the number of diagnostics of parse
\* and check, the number of errors of resolve_std_imports, whether
\* ag_codegen::codegen panics (it unwraps a CodegenError) and whether
\* fs::write fails
BuildInputs ==
    [parse : 0..MaxStageErrors, resolve : 0..MaxStageErrors,
     check : 0..MaxStageErrors, codegen_panics : BOOLEAN, write_fails : BOOLEAN]

BuildInit ==
    /\ b_in \in BuildInputs
    /\ b_pc = "parse"
    /\ b_log = <<>>
    /\ b_written = FALSE

BuildIdle ==
    /\ b_in = <<>>
    /\ b_pc = "idle"
    /\ b_log = <<>>
    /\ b_written = FALSE

\* a stage that reports through diagnostics or Err: exit(1) on failure,
\* otherwise on to the next statement
BuildStage(stage, next) ==
    /\ b_pc = stage
    /\ b_log' = Append(b_log, stage)
    /\ b_pc' = IF StageFailed(b_in[stage]) THEN "exit1" ELSE next
    /\ UNCHANGED <<b_in, b_written>>
    /\ UNCHANGED notBuild

BuildParse == BuildStage("parse", "resolve")

BuildResolve == BuildStage("resolve", "check")

BuildCheck == BuildStage("check", "codegen")

\* `let js = ag_codegen::codegen(&module)`: a panic unwinds out of main
BuildCodegen ==
    /\ b_pc = "codegen"
    /\ b_log' = Append(b_log, "codegen")
    /\ b_pc' = IF b_in.codegen_panics THEN "panic" ELSE "write"
    /\ UNCHANGED <<b_in, b_written>>
    /\ UNCHANGED notBuild

\* `fs::write(&output_path, &js)`, then exit(1) or the "compiled" message
BuildWrite ==
    /\ b_pc = "write"
    /\ b_log' = Append(b_log, "write")
    /\ b_written' = ~b_in.write_fails
    /\ b_pc' = IF b_in.write_fails THEN "exit1" ELSE "exit0"
    /\ UNCHANGED b_in
    /\ UNCHANGED notBuild

\* ======================================================================
\* ag-checker  (src/crates/ag-checker/src/lib.rs)
\* ======================================================================

\* ---- enum Type: a record whose field t names the variant
TStr == [t |-> "Str"]
TNum == [t |-> "Num"]
TInt == [t |-> "Int"]
TBool == [t |-> "Bool"]
TNil == [t |-> "Nil"]
TAny == [t |-> "Any"]
TUnknown == [t |-> "Unknown"]
TArray(a) == [t |-> "Array", a |-> a]
TMap(a, b) == [t |-> "Map", a |-> a, b |-> b]
TNullable(a) == [t |-> "Nullable", a |-> a]
TUnion(a, b) == [t |-> "Union", a |-> a, b |-> b]
TFunction(ps, r) == [t |-> "Function", ps |-> ps, r |-> r]
TVariadicFunction(ps, r) == [t |-> "VariadicFunction", ps |-> ps, r |-> r]
TPromise(a) == [t |-> "Promise", a |-> a]
\* fields: a sequence of <<name, type>>
TStruct(name, fields) == [t |-> "Struct", name |-> name, fields |-> fields]
\* variants: a sequence of <<name, fields>>
TEnum(name, variants) == [t |-> "Enum", name |-> name, variants |-> variants]

\* fn type_compatible: the arms of the match in their order
RECURSIVE type_compatible(_, _)
type_compatible(expected, actual) ==
    IF expected = actual THEN TRUE
    ELSE IF expected.t = "Any" \/ actual.t = "Any" THEN TRUE
    ELSE IF expected.t = "Unknown" \/ actual.t = "Unknown" THEN TRUE
    ELSE IF expected.t = "Num" /\ actual.t = "Int" THEN TRUE
    ELSE IF expected.t = "Nullable"
    THEN type_compatible(expected.a, actual) \/ actual.t = "Nil"
    ELSE IF expected.t = "Union"
    THEN type_compatible(expected.a, actual) \/ type_compatible(expected.b, actual)
    ELSE IF actual.t = "Union"
    THEN type_compatible(expected, actual.a) /\ type_compatible(expected, actual.b)
    ELSE IF expected.t = "Array" /\ actual.t = "Array"
    THEN type_compatible(expected.a, actual.a)
    ELSE IF expected.t = "Map" /\ actual.t = "Map"
    THEN type_compatible(expected.a, actual.a) /\ type_compatible(expected.b, actual.b)
    ELSE IF expected.t = "Function" /\ actual.t = "Function"
    THEN /\ Len(expected.ps) = Len(actual.ps)
         /\ \A i \in 1..Len(expected.ps) :
                type_compatible(expected.ps[i], actual.ps[i])
         /\ type_compatible(expected.r, actual.r)
    ELSE IF expected.t = "Promise" /\ actual.t = "Promise"
    THEN type_compatible(expected.a, actual.a)
    ELSE IF expected.t = "Struct" /\ actual.t = "Struct"
    THEN \A i \in 1..Len(expected.fields) :
            \E j \in 1..Len(actual.fields) :
                /\ actual.fields[j][1] = expected.fields[i][1]
                /\ type_compatible(expected.fields[i][2], actual.fields[j][2])
    ELSE FALSE

\* ---- one call of type_compatible on types of bounded shape
AtomTypes == {TStr, TNum, TInt, TNil, TAny}

RECURSIVE NullableTypes(_)
NullableTypes(n) ==
    IF n = 0 THEN AtomTypes
    ELSE NullableTypes(n - 1) \cup {TNullable(a) : a \in NullableTypes(n - 1)}

MaxNullable == 1

CompatTypes ==
    NullableTypes(MaxNullable) \cup {TUnion(a, b) : a, b \in AtomTypes}

CompatInit ==
    /\ tc_expected \in CompatTypes
    /\ tc_actual \in CompatTypes
    /\ tc_result = FALSE
    /\ tc_pc = "call"

CompatIdle ==
    /\ tc_expected = <<>>
    /\ tc_actual = <<>>
    /\ tc_result = FALSE
    /\ tc_pc = "idle"

TypeCompatible ==
    /\ tc_pc = "call"
    /\ tc_result' = type_compatible(tc_expected, tc_actual)
    /\ tc_pc' = "done"
    /\ UNCHANGED <<tc_expected, tc_actual>>
    /\ UNCHANGED notCompat

\* ---- ag-ast: a node is a record whose field k names the variant; a span is
\* a number that identifies the node; Option::None is NoExpr / NoType
NoExpr == [k |-> "None"]
NoType == [k |-> "None"]
Named(name) == [k |-> "Named", name |-> name]
NullableTy(inner) == [k |-> "Nullable", inner |-> inner]
Literal(ty) == [k |-> "Literal", ty |-> ty]
Ident(name, span) == [k |-> "Ident", name |-> name, span |-> span]
CallExpr(callee, args, span) ==
    [k |-> "Call", callee |-> callee, args |-> args, span |-> span]
ArrowExpr(params, body, is_async, span) ==
    [k |-> "Arrow", params |-> params, body |-> body, is_async |-> is_async,
     span |-> span]
AwaitExpr(expr, span) == [k |-> "Await", expr |-> expr, span |-> span]
AssignExpr(target, value, span) ==
    [k |-> "Assign", target |-> target, value |-> value, span |-> span]
\* parts: the TemplatePart::Expr parts of the template
TemplateStringExpr(parts) == [k |-> "TemplateString", parts |-> parts]
\* MatchExpr with arms whose pattern is Pattern::Range(start, end)
MatchExpr(subject, arms) == [k |-> "Match", subject |-> subject, arms |-> arms]
MatchArm(start, end, body) == [start |-> start, end |-> end, body |-> body]
\* `e?`, the patterns, and a match arm with a pattern and an optional guard
ErrorPropagateExpr(expr) == [k |-> "ErrorPropagate", expr |-> expr]
PLiteral(lit) == [k |-> "Literal", lit |-> lit]
PIdent(name) == [k |-> "Ident", name |-> name]
PWildcard == [k |-> "Wildcard"]
PEnum(variant, bindings) ==
    [k |-> "Enum", variant |-> variant, bindings |-> bindings]
GuardedArm(pattern, guard, body) ==
    [pattern |-> pattern, guard |-> guard, body |-> body]
Block(stmts, tail_expr, span) ==
    [k |-> "Block", stmts |-> stmts, tail_expr |-> tail_expr, span |-> span]
Param(name, ty, default, span) ==
    [name |-> name, ty |-> ty, default |-> default, span |-> span]
VarDecl(kind, name, ty, init, span) ==
    [k |-> "VarDecl", kind |-> kind, name |-> name, ty |-> ty, init |-> init,
     span |-> span]
ExprStmt(expr) == [k |-> "ExprStmt", expr |-> expr]
ReturnStmt(value) == [k |-> "Return", value |-> value]
ForStmt(binding, iter, body) ==
    [k |-> "For", binding |-> binding, iter |-> iter, body |-> body]
WhileStmt(condition, body) ==
    [k |-> "While", condition |-> condition, body |-> body]
TryCatchStmt(try_block, catch_binding, catch_block) ==
    [k |-> "TryCatch", try_block |-> try_block,
     catch_binding |-> catch_binding, catch_block |-> catch_block]
FnDecl(name, params, return_type, body, is_async, span) ==
    [k |-> "FnDecl", name |-> name, params |-> params,
     return_type |-> return_type, body |-> body, is_async |-> is_async,
     span |-> span]
\* StructDecl, EnumDecl, ExternStructDecl, ExternTypeDecl without fields,
\* variants or methods; TypeAlias with its TypeExpr
Decl(k, name, span) == [k |-> k, name |-> name, span |-> span]
TypeAlias(name, ty, span) ==
    [k |-> "TypeAlias", name |-> name, ty |-> ty, span |-> span]
\* js_module: JsAnnotation.module, or "" without a @js annotation
ExternFnDecl(name, params, return_type, variadic, js_module, span) ==
    [k |-> "ExternFnDecl", name |-> name, params |-> params,
     return_type |-> return_type, variadic |-> variadic,
     js_module |-> js_module, span |-> span]
\* captures: the DslPart::Capture expressions of DslContent::Inline
DslBlock(captures) == [k |-> "DslBlock", captures |-> captures]

\* ---- struct Scope: the frames from the outermost to the innermost; a
\* frame is the set of its entries [name, sym]
Symbol(ty, mutable) == [ty |-> ty, mutable |-> mutable]

NoSymbol == [ty |-> [t |-> "None"], mutable |-> FALSE]

Scope_new == <<{}>>

Scope_child(parent) == Append(parent, {})

contains_key(symbols, name) == \E e \in symbols : e.name = name

\* Scope::define: the scope after the call (unchanged on a duplicate)
define(scope, name, sym) ==
    IF contains_key(Last(scope), name) THEN scope
    ELSE SetLast(scope, Last(scope) \cup {[name |-> name, sym |-> sym]})

RECURSIVE lookup(_, _)
lookup(scope, name) ==
    IF scope = <<>> THEN NoSymbol
    ELSE IF contains_key(Last(scope), name)
    THEN (CHOOSE e \in Last(scope) : e.name = name).sym
    ELSE lookup(Front(scope), name)

\* ---- struct Checker as a value: st.scope, st.diagnostics,
\* st.type_aliases (a set of [name, ty]), st.in_async
Checker(scope, diagnostics, type_aliases, in_async) ==
    [scope |-> scope, diagnostics |-> diagnostics,
     type_aliases |-> type_aliases, in_async |-> in_async]

\* Checker::error; a diagnostic is its message (without the names and the
\* types the source formats into it) and its span
error(st, msg, span) ==
    [st EXCEPT !.diagnostics = Append(@, [msg |-> msg, span |-> span])]

\* what a check_* function returns, with the checker after the call
CRes(ty, st) == [ty |-> ty, st |-> st]

RECURSIVE resolve_type(_, _)
resolve_type(st, ty) ==
    CASE ty.k = "Named" ->
           CASE ty.name = "str" -> TStr
             [] ty.name = "num" -> TNum
             [] ty.name = "int" -> TInt
             [] ty.name = "bool" -> TBool
             [] ty.name = "nil" -> TNil
             [] ty.name = "any" -> TAny
             [] OTHER ->
                  IF contains_key(st.type_aliases, ty.name)
                  THEN (CHOOSE e \in st.type_aliases : e.name = ty.name).ty
                  ELSE IF lookup(st.scope, ty.name) # NoSymbol
                  THEN lookup(st.scope, ty.name).ty
                  ELSE TUnknown
      [] ty.k = "Nullable" -> TNullable(resolve_type(st, ty.inner))

\* `p.ty.as_ref().map(|t| self.resolve_type(t)).unwrap_or(default)`
resolve_or(st, ty, default) ==
    IF ty = NoType THEN default ELSE resolve_type(st, ty)

\* ---- first pass of check_module: the register_* functions
\* the `param_types` of register_fn_decl and register_extern_fn_decl
param_types(st, params) ==
    [i \in 1..Len(params) |-> resolve_or(st, params[i].ty, TAny)]

register_fn_decl(st, f) ==
    LET ret_type == resolve_or(st, f.return_type, TNil)
        ty == TFunction(param_types(st, f.params),
                        IF f.is_async THEN TPromise(ret_type) ELSE ret_type)
    IN  [st EXCEPT !.scope = define(@, f.name, Symbol(ty, FALSE))]

\* register_struct_decl and register_enum_decl: the result of define is dropped
register_struct_decl(st, d) ==
    [st EXCEPT !.scope = define(@, d.name, Symbol(TStruct(d.name, <<>>), FALSE))]

register_enum_decl(st, d) ==
    [st EXCEPT !.scope = define(@, d.name, Symbol(TEnum(d.name, <<>>), FALSE))]

\* HashMap::insert replaces the entry of the name
register_type_alias(st, a) ==
    [st EXCEPT !.type_aliases =
        {e \in @ : e.name # a.name}
            \cup {[name |-> a.name, ty |-> resolve_type(st, a.ty)]}]

\* register_extern_fn_decl, register_extern_struct_decl and
\* register_extern_type_decl after their type is built
register_extern(st, d, ty) ==
    IF contains_key(Last(st.scope), d.name)
    THEN error(st, "duplicate declaration", d.span)
    ELSE [st EXCEPT !.scope = define(@, d.name, Symbol(ty, FALSE))]

register_item(st, item) ==
    CASE item.k = "FnDecl" -> register_fn_decl(st, item)
      [] item.k = "StructDecl" -> register_struct_decl(st, item)
      [] item.k = "EnumDecl" -> register_enum_decl(st, item)
      [] item.k = "TypeAlias" -> register_type_alias(st, item)
      [] item.k = "ExternFnDecl" ->
           LET ps == param_types(st, item.params)
               ret == resolve_or(st, item.return_type, TNil)
           IN  register_extern(st, item,
                   IF item.variadic THEN TVariadicFunction(ps, ret)
                   ELSE TFunction(ps, ret))
      [] item.k \in {"ExternStructDecl", "ExternTypeDecl"} ->
           register_extern(st, item, TStruct(item.name, <<>>))
      [] OTHER -> st

\* ---- second pass: the check_* functions call one another through Check,
\* which dispatches on the function's name
RECURSIVE Check(_, _, _)

\* the parameter loops of check_fn_decl (require_ty) and of Expr::Arrow
RECURSIVE define_params(_, _, _)
define_params(st, params, require_ty) ==
    IF params = <<>> THEN st
    ELSE LET param == Head(params)
             st1 == IF require_ty /\ param.ty = NoType /\ param.default = NoExpr
                    THEN error(st, "parameter requires a type annotation", param.span)
                    ELSE st
             ty == resolve_or(st1, param.ty, TAny)
         IN  define_params([st1 EXCEPT !.scope = define(@, param.name, Symbol(ty, FALSE))],
                           Tail(params), require_ty)

\* the loop `for (binding, (_, ty)) in ep.bindings.iter().zip(fields)`
RECURSIVE BindZip(_, _, _, _)
BindZip(scope, bindings, fields, i) ==
    IF i > Min(Len(bindings), Len(fields)) THEN scope
    ELSE BindZip(define(scope, bindings[i], Symbol(fields[i][2], FALSE)),
                 bindings, fields, i + 1)

\* variants.iter().find(|(n, _)| n == &ep.variant): its index, 0 for None
FindVariant(variants, name) ==
    IF \E i \in 1..Len(variants) : variants[i][1] = name
    THEN CHOOSE i \in 1..Len(variants) :
           /\ variants[i][1] = name
           /\ \A j \in 1..(i - 1) : variants[j][1] # name
    ELSE 0

\* Checker::bind_pattern: the scope after the call
bind_pattern(scope, pattern, subject_ty) ==
    CASE pattern.k = "Ident" ->
           define(scope, pattern.name, Symbol(subject_ty, FALSE))
      [] pattern.k = "Enum" ->
           IF subject_ty.t = "Enum"
              /\ FindVariant(subject_ty.variants, pattern.variant) # 0
           THEN BindZip(scope, pattern.bindings,
                        subject_ty.variants[
                            FindVariant(subject_ty.variants, pattern.variant)][2],
                        1)
           ELSE scope
      [] OTHER -> scope

\* the loop of check_match over the arms: a scope for the pattern's
\* bindings, the guard, the body, the scope restored, the result type
ArmLoop(st, x) ==
    IF x.arms = <<>> THEN CRes(IF x.has THEN x.result_ty ELSE TNil, st)
    ELSE LET arm == Head(x.arms)
             st1 == [st EXCEPT !.scope =
                        bind_pattern(Scope_child(@), arm.pattern, x.subject_ty)]
             st2 == IF arm.guard # NoExpr THEN Check("expr", st1, arm.guard).st
                    ELSE st1
             body == Check("expr", st2, arm.body)
             st3 == [body.st EXCEPT !.scope = Front(@)]
             result_ty == IF x.has /\ ~type_compatible(x.result_ty, body.ty)
                          THEN TUnion(x.result_ty, body.ty)
                          ELSE IF x.has THEN x.result_ty ELSE body.ty
         IN  Check("ArmLoop", st3,
                   [x EXCEPT !.arms = Tail(@), !.has = TRUE, !.result_ty = result_ty])

check_match(st, m) ==
    LET subject == Check("expr", st, m.subject)
    IN  Check("ArmLoop", subject.st,
              [arms |-> m.arms, subject_ty |-> subject.ty, has |-> FALSE,
               result_ty |-> TNil])

\* the loop of check_call over the arguments that have an expected type
ArgLoop(st, x) ==
    IF x.i > Len(x.expected) THEN CRes(TNil, st)
    ELSE LET arg == Check("expr", st, x.call.args[x.i])
             st1 == IF ~type_compatible(x.expected[x.i], arg.ty)
                    THEN error(arg.st, "argument mismatch", x.call.span)
                    ELSE arg.st
         IN  Check("ArgLoop", st1, [x EXCEPT !.i = @ + 1])

check_call(st, call) ==
    LET callee == Check("expr", st, call.callee)
        args == Check("each", callee.st, call.args)
        n == Len(call.args)
        ft == callee.ty
    IN  IF ft.t = "Function"
        THEN LET st1 == IF n > Len(ft.ps)
                        THEN error(args.st, "expected arguments", call.span)
                        ELSE args.st
                 expected == SubSeq(ft.ps, 1, Min(n, Len(ft.ps)))
             IN  CRes(ft.r, Check("ArgLoop", st1,
                            [call |-> call, expected |-> expected, i |-> 1]).st)
        ELSE IF ft.t = "VariadicFunction"
        THEN LET fixed == IF ft.ps = <<>> THEN <<>> ELSE Front(ft.ps)
                 variadic_ty == IF ft.ps = <<>> THEN TAny ELSE Last(ft.ps)
                 st1 == IF n < Len(fixed)
                        THEN error(args.st, "expected at least arguments", call.span)
                        ELSE args.st
                 expected == [i \in 1..n |->
                                IF i <= Len(fixed) THEN fixed[i] ELSE variadic_ty]
             IN  CRes(ft.r, Check("ArgLoop", st1,
                            [call |-> call, expected |-> expected, i |-> 1]).st)
        ELSE CRes(TAny, args.st)

check_expr(st, expr) ==
    CASE expr.k = "Literal" -> CRes(expr.ty, st)
      [] expr.k = "Ident" ->
           IF lookup(st.scope, expr.name) # NoSymbol
           THEN CRes(lookup(st.scope, expr.name).ty, st)
           ELSE CRes(TUnknown, error(st, "undefined variable", expr.span))
      [] expr.k = "Call" -> check_call(st, expr)
      [] expr.k = "Block" -> Check("check_block", st, expr)
      [] expr.k = "Arrow" ->
           LET st1 == define_params([st EXCEPT !.scope = Scope_child(@)],
                                    expr.params, FALSE)
               tys == param_types(st1, expr.params)
               ret == Check("expr", st1, expr.body)
           IN  CRes(TFunction(tys, ret.ty), [ret.st EXCEPT !.scope = Front(@)])
      [] expr.k = "Await" ->
           LET st1 == IF ~st.in_async
                      THEN error(st, "await outside async", expr.span)
                      ELSE st
               inner == Check("expr", st1, expr.expr)
           IN  IF inner.ty.t = "Promise" THEN CRes(inner.ty.a, inner.st)
               ELSE IF inner.ty.t \in {"Any", "Unknown"} THEN inner
               ELSE CRes(TUnknown,
                         error(inner.st, "await requires a Promise", expr.span))
      [] expr.k = "Assign" ->
           LET value == Check("expr", st, expr.value)
               sym == IF expr.target.k = "Ident"
                      THEN lookup(value.st.scope, expr.target.name)
                      ELSE NoSymbol
           IN  IF sym # NoSymbol /\ ~sym.mutable
               THEN CRes(value.ty, error(value.st, "cannot assign to immutable binding",
                                         expr.span))
               ELSE value
      [] expr.k = "TemplateString" -> CRes(TStr, st)
      [] expr.k = "Match" -> check_match(st, expr)
      [] expr.k = "ErrorPropagate" -> Check("expr", st, expr.expr)

check_var_decl(st, v) ==
    LET init == Check("expr", st, v.init)
        st1 == IF v.ty # NoType
                  /\ ~type_compatible(resolve_type(init.st, v.ty), init.ty)
               THEN error(init.st, "type mismatch", v.span)
               ELSE init.st
        ty == resolve_or(st1, v.ty, init.ty)
    IN  IF contains_key(Last(st1.scope), v.name)
        THEN error(st1, "duplicate binding", v.span)
        ELSE [st1 EXCEPT !.scope = define(@, v.name, Symbol(ty, v.kind = "Mut"))]

check_stmt(st, stmt) ==
    CASE stmt.k = "VarDecl" -> check_var_decl(st, stmt)
      [] stmt.k = "ExprStmt" -> Check("expr", st, stmt.expr).st
      [] stmt.k = "Return" ->
           IF stmt.value # NoExpr THEN Check("expr", st, stmt.value).st ELSE st
      [] stmt.k = "For" ->
           LET iter == Check("expr", st, stmt.iter)
               elem_ty == IF iter.ty.t = "Array" THEN iter.ty.a ELSE TAny
               st1 == [iter.st EXCEPT !.scope =
                          define(Scope_child(@), stmt.binding, Symbol(elem_ty, FALSE))]
               body == Check("check_block", st1, stmt.body)
           IN  [body.st EXCEPT !.scope = Front(@)]
      [] stmt.k = "While" ->
           Check("check_block", Check("expr", st, stmt.condition).st, stmt.body).st
      [] stmt.k = "TryCatch" ->
           LET try == Check("check_block", st, stmt.try_block)
               st1 == [try.st EXCEPT !.scope =
                          define(Scope_child(@), stmt.catch_binding,
                                 Symbol(TAny, FALSE))]
               catch == Check("check_block", st1, stmt.catch_block)
           IN  [catch.st EXCEPT !.scope = Front(@)]

\* check_block that leaves the block's scope current when the block has a
\* tail expression
check_block_NoRestore(st, block) ==
    LET stmts == Check("stmts", [st EXCEPT !.scope = Scope_child(@)], block.stmts)
    IN  IF block.tail_expr # NoExpr
        THEN Check("expr", stmts.st, block.tail_expr)
        ELSE CRes(TNil, [stmts.st EXCEPT !.scope = Front(@)])

check_block(st, block) ==
    LET stmts == Check("stmts", [st EXCEPT !.scope = Scope_child(@)], block.stmts)
        tail == IF block.tail_expr # NoExpr
                THEN Check("expr", stmts.st, block.tail_expr)
                ELSE CRes(TNil, stmts.st)
    IN  CRes(tail.ty, [tail.st EXCEPT !.scope = Front(@)])

Check(fn, st, x) ==
    CASE fn = "expr" -> check_expr(st, x)
      [] fn = "check_block" -> check_block(st, x)
      [] fn = "ArgLoop" -> ArgLoop(st, x)
      [] fn = "ArmLoop" -> ArmLoop(st, x)
      \* `for arg in &call.args { self.check_expr(arg); }`
      [] fn = "each" ->
           IF x = <<>> THEN CRes(TNil, st)
           ELSE Check("each", check_expr(st, Head(x)).st, Tail(x))
      \* `for stmt in &block.stmts { self.check_stmt(stmt); }`
      [] fn = "stmts" ->
           IF x = <<>> THEN CRes(TNil, st)
           ELSE Check("stmts", check_stmt(st, Head(x)), Tail(x))

check_fn_decl(st, f) ==
    LET st1 == define_params([st EXCEPT !.scope = Scope_child(@),
                                        !.in_async = f.is_async],
                             f.params, TRUE)
        body == check_block(st1, f.body)
        st2 == IF f.return_type # NoType
                  /\ ~type_compatible(resolve_type(st1, f.return_type), body.ty)
               THEN error(body.st, "return type mismatch", f.span)
               ELSE body.st
    IN  [st2 EXCEPT !.in_async = st.in_async, !.scope = Front(@)]

\* the match of the second loop of check_module (check_dsl_block inlined)
check_item(st, item) ==
    CASE item.k = "FnDecl" -> check_fn_decl(st, item)
      [] item.k = "VarDecl" -> check_var_decl(st, item)
      [] item.k = "ExprStmt" -> check_expr(st, item.expr).st
      [] item.k = "DslBlock" -> Check("each", st, item.captures).st
      [] OTHER -> st

\* ---- the modules given to check: up to MaxItems items, the item at
\* position i with the spans 10*i .. 10*i+9
IntParam(name, default, span) == Param(name, Named("int"), default, span)

AnyParam(span) == Param("a", Named("any"), NoExpr, span)

\* `fn f(params) -> return_type { stmts; tail_expr }`
Fn(name, params, return_type, stmts, tail_expr, is_async, b) ==
    FnDecl(name, params, return_type, Block(stmts, tail_expr, b + 1), is_async, b)

\* `f(args)`
CallF(args, b) == ExprStmt(CallExpr(Ident("f", b + 1), args, b))

FnItems(b) ==
    { \* fn f(a: int) -> int { a }
      Fn("f", <<IntParam("a", NoExpr, b + 2)>>, Named("int"),
         <<>>, Ident("a", b + 4), FALSE, b),
      \* fn f(a: int = u) -> int { a }
      Fn("f", <<IntParam("a", Ident("u", b + 3), b + 2)>>, Named("int"),
         <<>>, Ident("a", b + 4), FALSE, b),
      \* fn f(a: int, a: int) -> int { a }
      Fn("f", <<IntParam("a", NoExpr, b + 2), IntParam("a", NoExpr, b + 3)>>,
         Named("int"), <<>>, Ident("a", b + 4), FALSE, b),
      \* fn h(x: int) { let x = 1 }
      Fn("h", <<IntParam("x", NoExpr, b + 2)>>, NoType,
         <<VarDecl("Let", "x", NoType, Literal(TInt), b + 3)>>, NoExpr, FALSE, b),
      \* fn h() { let x = 1; let x = 2 }
      Fn("h", <<>>, NoType,
         <<VarDecl("Let", "x", NoType, Literal(TInt), b + 3),
           VarDecl("Let", "x", NoType, Literal(TInt), b + 4)>>, NoExpr, FALSE, b),
      \* fn r() -> int { "s" }
      Fn("r", <<>>, Named("int"), <<>>, Literal(TStr), FALSE, b),
      \* fn r() -> int { ret "s"; 1 }
      Fn("r", <<>>, Named("int"), <<ReturnStmt(Literal(TStr))>>, Literal(TInt),
         FALSE, b),
      \* fn r() -> int { ret 1; 1 }
      Fn("r", <<>>, Named("int"), <<ReturnStmt(Literal(TInt))>>, Literal(TInt),
         FALSE, b),
      \* fn r() -> int { }
      Fn("r", <<>>, Named("int"), <<>>, NoExpr, FALSE, b),
      \* fn r() -> int? { }
      Fn("r", <<>>, NullableTy(Named("int")), <<>>, NoExpr, FALSE, b) }

AwaitItems(b) ==
    { \* async fn g(a: any) { await a }   and   fn g(a: any) { await a }
      Fn("g", <<AnyParam(b + 2)>>, NoType, <<>>,
         AwaitExpr(Ident("a", b + 5), b + 4), is_async, b)
        : is_async \in BOOLEAN }
    \cup
    { \* [async] fn g(a: any) { let k = [async] () => await a }
      Fn("g", <<AnyParam(b + 2)>>, NoType,
         <<VarDecl("Let", "k", NoType,
                   ArrowExpr(<<>>, AwaitExpr(Ident("a", b + 6), b + 5),
                             arrow_async, b + 4), b + 3)>>,
         NoExpr, fn_async, b)
        : fn_async \in BOOLEAN, arrow_async \in BOOLEAN }
    \cup
    { \* await nil   (at the top level)
      ExprStmt(AwaitExpr(Literal(TNil), b)) }

OtherItems(b) ==
    { ExprStmt(Ident("u", b)),                                   \* u
      \* let s = `${u}`
      VarDecl("Let", "s", NoType, TemplateStringExpr(<<Ident("u", b + 1)>>), b),
      ExprStmt(AssignExpr(Ident("u", b + 1), Literal(TInt), b)), \* u = 1
      DslBlock(<<Ident("u", b + 1)>>),                           \* #{u}
      VarDecl("Let", "x", NoType, Literal(TInt), b),             \* let x = 1
      Decl("StructDecl", "S", b),                                \* struct S {}
      Decl("EnumDecl", "E", b),                                  \* enum E {}
      TypeAlias("T", Named("int"), b),                           \* type T = int
      ExternFnDecl("p", <<>>, Named("any"), FALSE, "", b),       \* extern fn p() -> any
      Decl("ExternTypeDecl", "X", b),                            \* extern type X
      Decl("ExternStructDecl", "Y", b),                          \* extern struct Y {}
      CallF(<<>>, b),                                            \* f()
      CallF(<<Literal(TInt)>>, b),                               \* f(1)
      CallF(<<Literal(TStr)>>, b),                               \* f("s")
      CallF(<<Literal(TInt), Literal(TInt)>>, b) }               \* f(1, 2)

ItemPool(b) == FnItems(b) \cup AwaitItems(b) \cup OtherItems(b)

MaxItems == 2

RECURSIVE ModulesOfLen(_)
ModulesOfLen(n) ==
    IF n = 0 THEN {<<>>}
    ELSE {Append(m, item) : m \in ModulesOfLen(n - 1), item \in ItemPool(10 * n)}

CheckModules == UNION {ModulesOfLen(n) : n \in 1..MaxItems}

\* ---- check(module): Checker::new(), then the two loops of check_module
CheckInit ==
    /\ c_module \in CheckModules
    /\ c_scope = Scope_new
    /\ c_diagnostics = <<>>
    /\ c_type_aliases = {}
    /\ c_in_async = FALSE
    /\ c_pc = "register"
    /\ c_i = 1

\* ---- modules whose items open scopes: functions, arrows, blocks, match
\* arms, loops and try/catch, with bindings n, y, z inside them, some with
\* an error inside (q and r are undefined); f and x are the module's names
ScopeItems ==
    LET n == Ident("n", 0)
        q == Ident("q", 0)
        let_y(e) == VarDecl("Let", "y", NoType, e, 0)
        block(stmts, tail) == Block(stmts, tail, 0)
    IN  { \* fn f(n: any) { let y = n; { let z = q; y } }
          Fn("f", <<Param("n", Named("any"), NoExpr, 0)>>, NoType,
             <<let_y(n)>>,
             block(<<VarDecl("Let", "z", NoType, q, 0)>>, Ident("y", 0)),
             FALSE, 0),
          \* fn f(n) { n }      (the parameter lacks its type)
          Fn("f", <<Param("n", NoType, NoExpr, 0)>>, NoType, <<>>, n, FALSE, 0),
          \* fn f() -> int { let y = "s"; y }      (return type mismatch)
          Fn("f", <<>>, Named("int"), <<let_y(Literal(TStr))>>, Ident("y", 0),
             FALSE, 0),
          \* (n) => q
          ExprStmt(ArrowExpr(<<Param("n", NoType, NoExpr, 0)>>, q, FALSE, 0)),
          \* (n) => { let y = n; y }
          ExprStmt(ArrowExpr(<<Param("n", NoType, NoExpr, 0)>>,
                             block(<<let_y(n)>>, Ident("y", 0)), FALSE, 0)),
          \* match x { n if q => n, _ => r }
          ExprStmt(MatchExpr(Ident("x", 0),
                     <<GuardedArm(PIdent("n"), q, n),
                       GuardedArm(PWildcard, NoExpr, Ident("r", 0))>>)),
          \* { for n in x { let y = n; } }
          ExprStmt(block(<<ForStmt("n", Ident("x", 0), block(<<let_y(n)>>, NoExpr))>>,
                         NoExpr)),
          \* { while q { let y = 1; } }
          ExprStmt(block(<<WhileStmt(q, block(<<let_y(Literal(TInt))>>, NoExpr))>>,
                         NoExpr)),
          \* { try { let y = q; } catch n { let z = n; } }
          ExprStmt(block(<<TryCatchStmt(block(<<let_y(q)>>, NoExpr), "n",
                              block(<<VarDecl("Let", "z", NoType, n, 0)>>, NoExpr))>>,
                         NoExpr)),
          \* let x = 1
          VarDecl("Let", "x", NoType, Literal(TInt), 0) }

MaxScopeItems == 2

ScopeModules == UNION {[1..len -> ScopeItems] : len \in 1..MaxScopeItems}

\* check(module) on these modules
ScopeInit ==
    /\ c_module \in ScopeModules
    /\ c_scope = Scope_new
    /\ c_diagnostics = <<>>
    /\ c_type_aliases = {}
    /\ c_in_async = FALSE
    /\ c_pc = "register"
    /\ c_i = 1

\* ---- modules that call f: a declaration of f (a function, a variadic
\* extern function) or of x (f is then undefined), followed by calls of f
\* whose arguments are literals, the undefined q, and calls of f; every
\* node of a module has its own span
MaxCallItems == 2

CallDecls ==
    { \* fn f(a: int) -> int { a }
      Fn("f", <<IntParam("a", NoExpr, 2)>>, Named("int"), <<>>, Ident("a", 4),
         FALSE, 0),
      \* extern fn f(...a: any) -> int
      ExternFnDecl("f", <<AnyParam(2)>>, Named("int"), TRUE, "", 0),
      \* let x = 1
      VarDecl("Let", "x", NoType, Literal(TInt), 0) }

CallItems(b) ==
    LET q(s) == Ident("q", s)
        f(args, s) == CallExpr(Ident("f", s + 1), args, s)
    IN  { CallF(<<>>, b),                                       \* f()
          CallF(<<Literal(TInt)>>, b),                          \* f(1)
          CallF(<<Literal(TStr)>>, b),                          \* f("s")
          CallF(<<q(b + 2)>>, b),                               \* f(q)
          CallF(<<Literal(TInt), q(b + 2)>>, b),                \* f(1, q)
          CallF(<<f(<<q(b + 4)>>, b + 2)>>, b),                 \* f(f(q))
          CallF(<<f(<<f(<<Literal(TInt)>>, b + 4)>>, b + 2)>>, b) } \* f(f(f(1)))

RECURSIVE CallsOfLen(_)
CallsOfLen(n) ==
    IF n = 0 THEN {<<>>}
    ELSE {Append(m, item) : m \in CallsOfLen(n - 1), item \in CallItems(10 * n)}

CallModules ==
    {<<d>> \o m : d \in CallDecls,
                  m \in UNION {CallsOfLen(n) : n \in 1..MaxCallItems}}

\* check(module) on these modules
CallInit ==
    /\ c_module \in CallModules
    /\ c_scope = Scope_new
    /\ c_diagnostics = <<>>
    /\ c_type_aliases = {}
    /\ c_in_async = FALSE
    /\ c_pc = "register"
    /\ c_i = 1

\* the Checker of the state, and the state after a call that returns st
CheckerNow == Checker(c_scope, c_diagnostics, c_type_aliases, c_in_async)

CheckerNext(st, next_pc) ==
    /\ c_scope' = st.scope
    /\ c_diagnostics' = st.diagnostics
    /\ c_type_aliases' = st.type_aliases
    /\ c_in_async' = st.in_async
    /\ c_pc' = IF c_i = Len(c_module) THEN next_pc ELSE c_pc
    /\ c_i' = IF c_i = Len(c_module) THEN 1 ELSE c_i + 1
    /\ UNCHANGED c_module
    /\ UNCHANGED notCheck

\* one iteration of the first loop
RegisterItem ==
    /\ c_pc = "register"
    /\ CheckerNext(register_item(CheckerNow, c_module[c_i]), "check")

\* one iteration of the second loop
CheckItem ==
    /\ c_pc = "check"
    /\ CheckerNext(check_item(CheckerNow, c_module[c_i]), "done")

\* ---- the places of a module the properties speak about.  A site is
\*   "await"  an await expression; ok: the nearest enclosing function
\*            (FnDecl or arrow) is async
\*   "ident"  an identifier reference; chain: the scopes around it
\*   "decl"   a definition of a name in the scope `scope` ("alias": of a type
\*            alias)
\*   "ret"    a value a function body returns (node), span and ty: the span
\*            and the declared return type of the function
\*   "call"   a call expression (node)
\* A scope is named by its kind and the span of the node that opens it.
Site(s, name, span, ctx, node) ==
    [s |-> s, name |-> name, span |-> span, scope |-> Last(ctx.chain),
     chain |-> ctx.chain, ok |-> ctx.async, node |-> node, ty |-> ctx.ret]

ScopeId(kind, span) == [kind |-> kind, span |-> span]

Enter(ctx, kind, span) == [ctx EXCEPT !.chain = Append(@, ScopeId(kind, span))]

ModuleCtx ==
    [chain |-> <<ScopeId("module", 0)>>, async |-> FALSE, ret |-> NoType, span |-> 0]

RECURSIVE Sites(_, _, _)

ParamSites(params, ctx) ==
    UNION {{Site("decl", params[i].name, params[i].span, ctx, NoExpr)}
             \cup Sites("expr", params[i].default, ctx) : i \in 1..Len(params)}

ExprSites(e, ctx) ==
    CASE e.k = "Ident" -> {Site("ident", e.name, e.span, ctx, e)}
      [] e.k = "Call" ->
           {Site("call", "", e.span, ctx, e)}
             \cup Sites("expr", e.callee, ctx) \cup Sites("each", e.args, ctx)
      [] e.k = "Block" ->
           LET inner == Enter(ctx, "block", e.span)
           IN  Sites("each", e.stmts, inner) \cup Sites("expr", e.tail_expr, inner)
      [] e.k = "Arrow" ->
           LET inner == [Enter(ctx, "arrow", e.span) EXCEPT
                            !.async = e.is_async, !.ret = NoType]
           IN  ParamSites(e.params, inner) \cup Sites("expr", e.body, inner)
      [] e.k = "Await" ->
           {Site("await", "", e.span, ctx, e)} \cup Sites("expr", e.expr, ctx)
      [] e.k = "Assign" ->
           Sites("expr", e.target, ctx) \cup Sites("expr", e.value, ctx)
      [] e.k = "TemplateString" -> Sites("each", e.parts, ctx)
      [] e.k = "Match" ->
           Sites("expr", e.subject, ctx)
             \cup UNION {Sites("expr", e.arms[i].start, ctx)
                           \cup Sites("expr", e.arms[i].end, ctx)
                           \cup Sites("expr", e.arms[i].body, ctx)
                         : i \in 1..Len(e.arms)}
      \* statements
      [] e.k = "VarDecl" ->
           {Site("decl", e.name, e.span, ctx, NoExpr)} \cup Sites("expr", e.init, ctx)
      [] e.k = "ExprStmt" -> Sites("expr", e.expr, ctx)
      [] e.k = "Return" ->
           (IF ctx.ret # NoType /\ e.value # NoExpr
            THEN {Site("ret", "", ctx.span, ctx, e.value)} ELSE {})
             \cup Sites("expr", e.value, ctx)
      \* items
      [] e.k = "FnDecl" ->
           LET inner == [Enter(ctx, "params", e.span) EXCEPT
                            !.async = e.is_async, !.ret = e.return_type,
                            !.span = e.span]
               value == IF e.body.tail_expr # NoExpr THEN {e.body.tail_expr}
                        ELSE IF \A i \in 1..Len(e.body.stmts) :
                                    e.body.stmts[i].k # "Return"
                        THEN {Literal(TNil)}
                        ELSE {}
           IN  {Site("decl", e.name, e.span, ctx, NoExpr)}
                 \cup ParamSites(e.params, inner)
                 \cup Sites("expr", e.body, inner)
                 \cup (IF e.return_type # NoType
                       THEN {Site("ret", "", e.span, inner, v) : v \in value}
                       ELSE {})
      [] e.k = "TypeAlias" -> {Site("alias", e.name, e.span, ctx, NoExpr)}
      [] e.k \in {"StructDecl", "EnumDecl", "ExternFnDecl", "ExternStructDecl",
                  "ExternTypeDecl"} ->
           {Site("decl", e.name, e.span, ctx, NoExpr)}
      [] e.k = "DslBlock" -> Sites("each", e.captures, ctx)
      [] OTHER -> {}

Sites(fn, x, ctx) ==
    CASE fn = "expr" -> ExprSites(x, ctx)
      [] fn = "each" -> UNION {ExprSites(x[i], ctx) : i \in 1..Len(x)}

\* the sites of kind s of the module being checked
ModuleSites(module, s) == {x \in Sites("each", module, ModuleCtx) : x.s = s}

HasDiag(msgs, spans) ==
    \E i \in 1..Len(c_diagnostics) :
        c_diagnostics[i].msg \in msgs /\ c_diagnostics[i].span \in spans

CheckIdle ==
    /\ c_module = <<>>
    /\ c_scope = <<>>
    /\ c_diagnostics = <<>>
    /\ c_type_aliases = <<>>
    /\ c_in_async = FALSE
    /\ c_pc = "idle"
    /\ c_i = 0

\* ======================================================================
\* ag-codegen  (src/crates/ag-codegen/src/lib.rs)
\* ======================================================================

\* ---- translate_module, first pass: the `@js` externs with a module, as a
\* map from the extern's name to its module (a later insert of the same
\* name replaces the earlier one)
RECURSIVE js_externs(_)
js_externs(items) ==
    IF items = <<>> THEN {}
    ELSE LET item == Last(items)
             rest == js_externs(Front(items))
         IN  IF item.k = "ExternFnDecl" /\ item.js_module # ""
             THEN {e \in rest : e.name # item.name}
                    \cup {[name |-> item.name, module |-> item.js_module]}
             ELSE rest

\* collect_idents_expr and collect_idents_block call one another through
\* Collect; the result is the set of names they insert
RECURSIVE Collect(_, _)

collect_idents_expr(expr) ==
    CASE expr.k = "Ident" -> {expr.name}
      [] expr.k = "Call" ->
           Collect("expr", expr.callee)
             \cup UNION {Collect("expr", expr.args[i]) : i \in 1..Len(expr.args)}
      [] expr.k = "Match" ->
           Collect("expr", expr.subject)
             \cup UNION {Collect("expr", expr.arms[i].body) : i \in 1..Len(expr.arms)}
      [] expr.k = "Block" -> Collect("block", expr)
      [] expr.k = "Arrow" -> Collect("expr", expr.body)
      [] expr.k = "Await" -> Collect("expr", expr.expr)
      [] expr.k = "Assign" ->
           Collect("expr", expr.target) \cup Collect("expr", expr.value)
      [] expr.k = "TemplateString" ->
           UNION {Collect("expr", expr.parts[i]) : i \in 1..Len(expr.parts)}
      [] OTHER -> {}

collect_idents_block(block) ==
    UNION {LET stmt == block.stmts[i]
           IN  CASE stmt.k = "VarDecl" -> Collect("expr", stmt.init)
                 [] stmt.k = "ExprStmt" -> Collect("expr", stmt.expr)
                 [] stmt.k = "Return" -> Collect("expr", stmt.value)
           : i \in 1..Len(block.stmts)}
      \cup Collect("expr", block.tail_expr)

Collect(fn, x) ==
    CASE fn = "expr" -> collect_idents_expr(x)
      [] fn = "block" -> collect_idents_block(x)

collect_referenced_idents(item) ==
    CASE item.k = "FnDecl" -> collect_idents_block(item.body)
      [] item.k = "VarDecl" -> collect_idents_expr(item.init)
      [] item.k = "ExprStmt" -> collect_idents_expr(item.expr)
      [] item.k = "DslBlock" ->
           UNION {collect_idents_expr(item.captures[i]) : i \in 1..Len(item.captures)}
      [] OTHER -> {}

\* `module_imports[path]` as a set: the referenced externs of the path
module_imports(module, path) ==
    LET referenced == UNION {collect_referenced_idents(module[i]) : i \in 1..Len(module)}
    IN  {e.name : e \in {x \in js_externs(module) :
                            x.module = path /\ x.name \in referenced}}

\* the module paths of the model in the order of `sorted_modules.sort()`
SortedPaths == <<"m1", "m2">>

\* the orders in which iterating a HashMap can yield the names
Orders(names) ==
    {o \in [1..Cardinality(names) -> names] :
        \A i, j \in 1..Cardinality(names) : i # j => o[i] # o[j]}

\* ---- the modules given to codegen: up to MaxGenItems items
GenItems ==
    { ExternFnDecl("p", <<>>, Named("any"), FALSE, "m1", 0),  \* @js("m1") extern fn p() -> any
      ExternFnDecl("q", <<>>, Named("any"), FALSE, "m1", 0),  \* @js("m1") extern fn q() -> any
      ExternFnDecl("w", <<>>, Named("any"), FALSE, "m2", 0),  \* @js("m2") extern fn w() -> any
      ExternFnDecl("v", <<>>, Named("any"), FALSE, "", 0),    \* extern fn v() -> any
      ExprStmt(CallExpr(Ident("p", 0), <<Ident("q", 0)>>, 0)), \* p(q)
      ExprStmt(CallExpr(Ident("v", 0), <<Ident("w", 0)>>, 0)), \* v(w)
      \* fn f() { q() }
      Fn("f", <<>>, NoType, <<>>, CallExpr(Ident("q", 0), <<>>, 0), FALSE, 0),
      \* fn f(a: int = p) { }
      Fn("f", <<IntParam("a", Ident("p", 0), 0)>>, NoType, <<>>, NoExpr, FALSE, 0),
      \* let k = (a: int = q) => 1
      VarDecl("Let", "k", NoType,
              ArrowExpr(<<IntParam("a", Ident("q", 0), 0)>>, Literal(TInt), FALSE, 0), 0),
      \* match 1 { p..w => 1 }
      ExprStmt(MatchExpr(Literal(TInt),
                         <<MatchArm(Ident("p", 0), Ident("w", 0), Literal(TInt))>>)),
      \* let x = 1
      VarDecl("Let", "x", NoType, Literal(TInt), 0),
      \* @prompt t ``` .. ```
      DslBlock(<<>>) }

MaxGenItems == 3

GenModules == UNION {[1..n -> GenItems] : n \in 1..MaxGenItems}

CodegenInit ==
    /\ g_module \in GenModules
    /\ g_imports = <<>>
    /\ g_body = <<>>
    /\ g_prev = <<>>
    /\ g_pc = "run"

\* ag_dsl_prompt::codegen::generate and generate_file_ref: the import
\* declaration that is the first item either of them returns
PromptImport ==
    [src |-> "@agentscript/prompt-runtime", specifiers |-> <<"PromptTemplate">>]

\* the second pass of translate_module, as far as import declarations go:
\* the handler registered for `prompt` runs on every DSL block and its
\* items are appended to the body (the other items of the model emit none)
RECURSIVE dsl_imports(_)
dsl_imports(items) ==
    IF items = <<>> THEN <<>>
    ELSE IF Head(items).k = "DslBlock"
    THEN <<PromptImport>> \o dsl_imports(Tail(items))
    ELSE dsl_imports(Tail(items))

\* translate_module, as far as import declarations go: one ImportDecl for
\* each path of module_imports, in sorted order, its specifiers in the order
\* the HashMap yields the names, then what the second pass appends.  The
\* set holds every [imports, body] a call can return
translate_module(module) ==
    LET sorted_modules ==
            SelectSeq(SortedPaths, LAMBDA path : module_imports(module, path) # {})
        AllOrders == UNION {Orders(module_imports(module, path))
                              : path \in {"m1", "m2"}}
        Choices == {specifiers \in [1..Len(sorted_modules) -> AllOrders] :
                      \A i \in 1..Len(sorted_modules) :
                         specifiers[i] \in
                             Orders(module_imports(module, sorted_modules[i]))}
        imports(specifiers) ==
            [i \in 1..Len(sorted_modules) |->
               [src |-> sorted_modules[i], specifiers |-> specifiers[i]]]
    IN  {[imports |-> imports(specifiers),
          body |-> imports(specifiers) \o dsl_imports(module)]
           : specifiers \in Choices}

\* codegen(module)
TranslateModule ==
    /\ g_pc = "run"
    /\ \E out \in translate_module(g_module) :
          /\ g_imports' = out.imports
          /\ g_body' = out.body
    /\ g_pc' = "done"
    /\ UNCHANGED <<g_module, g_prev>>
    /\ UNCHANGED notCodegen

\* codegen(module) once more on the same module
TranslateAgain ==
    /\ g_pc = "done"
    /\ \E out \in translate_module(g_module) :
          /\ g_imports' = out.imports
          /\ g_body' = out.body
    /\ g_prev' = g_body
    /\ g_pc' = "again"
    /\ UNCHANGED g_module
    /\ UNCHANGED notCodegen

CodegenIdle ==
    /\ g_module = <<>>
    /\ g_imports = <<>>
    /\ g_body = <<>>
    /\ g_prev = <<>>
    /\ g_pc = "idle"

\* ======================================================================
\* ag-codegen (src/crates/ag-codegen/src/lib.rs): lowering of functions
\* ======================================================================

\* ---- ag-ast nodes of the lowering: literals with their value and `==`
IntLit(value) == [k |-> "Literal", ty |-> "int", value |-> value]
BinaryExpr(op, left, right) ==
    [k |-> "Binary", op |-> op, left |-> left, right |-> right]

\* ---- the swc nodes the translation emits
JNone == [k |-> "JNone"]
JIdent(name) == [k |-> "JIdent", name |-> name]
JNum(value) == [k |-> "JLit", value |-> [ty |-> "num", n |-> value]]
JStr(value) == [k |-> "JLit", value |-> [ty |-> "str", s |-> value]]
JBin(op, left, right) ==
    [k |-> "JBin", op |-> op, left |-> left, right |-> right]
JMember(obj, prop) == [k |-> "JMember", obj |-> obj, prop |-> prop]
JConst(name, init) == [k |-> "JConst", name |-> name, init |-> init]
JIf(test, cons, alt) ==
    [k |-> "JIf", test |-> test, cons |-> cons, alt |-> alt]
JBlock(stmts) == [k |-> "JBlock", stmts |-> stmts]
JReturn(arg) == [k |-> "JReturn", arg |-> arg]
JExprStmt(expr) == [k |-> "JExpr", expr |-> expr]

JAwait(arg) == [k |-> "JAwait", arg |-> arg]
\* swc::ArrowExpr with an expression body
JArrow(params, body, is_async) ==
    [k |-> "JArrow", params |-> params, body |-> body, is_async |-> is_async]

\* (() => { stmts })()
make_iife(stmts) == [k |-> "JIife", stmts |-> stmts]

RECURSIVE translate_expr(_)

translate_literal(lit) == JNum(lit.value)

translate_binary(b) ==
    JBin(IF b.op = "Eq" THEN "===" ELSE b.op,
         translate_expr(b.left), translate_expr(b.right))

\* the pair (condition, bindings); condition is JNone for Option::None
translate_pattern_to_condition(pattern, subject_var) ==
    CASE pattern.k = "Literal" ->
           <<JBin("===", JIdent(subject_var), translate_literal(pattern.lit)),
             <<>>>>
      [] pattern.k = "Ident" ->
           <<JNone, <<<<pattern.name, JIdent(subject_var)>>>>>>
      [] pattern.k = "Wildcard" -> <<JNone, <<>>>>
      [] pattern.k = "Enum" ->
           <<JBin("===", JMember(JIdent(subject_var), "tag"),
                  JStr(pattern.variant)),
             [i \in 1..Len(pattern.bindings) |->
                <<pattern.bindings[i],
                  JMember(JIdent(subject_var), pattern.bindings[i])>>]>>

\* one iteration of `for arm in m.arms.iter().rev()`: the new else_stmt
MatchArmStmt(arm, else_stmt) ==
    LET return_stmt == JReturn(translate_expr(arm.body))
        cb == translate_pattern_to_condition(arm.pattern, "_match")
        condition == cb[1]
        bindings == cb[2]
        body_stmts ==
            [i \in 1..Len(bindings) |-> JConst(bindings[i][1], bindings[i][2])]
              \o <<return_stmt>>
    IN  IF condition # JNone
        THEN LET cond == IF arm.guard # NoExpr
                         THEN JBin("&&", condition, translate_expr(arm.guard))
                         ELSE condition
             IN  JIf(cond, JBlock(body_stmts), else_stmt)
        ELSE IF arm.guard # NoExpr
             THEN JIf(translate_expr(arm.guard), JBlock(body_stmts), else_stmt)
             ELSE JBlock(body_stmts)

\* the loop over the arms in reverse, from arm i down to the first
RECURSIVE MatchChain(_, _, _)
MatchChain(arms, i, else_stmt) ==
    IF i = 0 THEN else_stmt
    ELSE MatchChain(arms, i - 1, MatchArmStmt(arms[i], else_stmt))

translate_match(m) ==
    LET stmts == <<JConst("_match", translate_expr(m.subject))>>
        chain == MatchChain(m.arms, Len(m.arms), JNone)
    IN  make_iife(IF chain # JNone THEN Append(stmts, chain) ELSE stmts)

translate_error_propagate(ep) ==
    make_iife(<<JConst("_tmp", translate_expr(ep.expr)),
                JIf(JBin("instanceof", JIdent("_tmp"), JIdent("Error")),
                    JReturn(JIdent("_tmp")), JNone),
                JReturn(JIdent("_tmp"))>>)

\* translate_arrow for an arrow with an expression body
translate_arrow(arrow) ==
    JArrow([i \in 1..Len(arrow.params) |-> arrow.params[i].name],
           translate_expr(arrow.body), FALSE)

translate_expr(expr) ==
    CASE expr.k = "Literal" -> translate_literal(expr)
      [] expr.k = "Ident" -> JIdent(expr.name)
      [] expr.k = "Binary" -> translate_binary(expr)
      [] expr.k = "ErrorPropagate" -> translate_error_propagate(expr)
      [] expr.k = "Match" -> translate_match(expr)
      [] expr.k = "Await" -> JAwait(translate_expr(expr.expr))
      [] expr.k = "Arrow" -> translate_arrow(expr)

translate_var_decl_stmt(v) == JConst(v.name, translate_expr(v.init))

translate_stmt(stmt) ==
    CASE stmt.k = "VarDecl" -> translate_var_decl_stmt(stmt)
      [] stmt.k = "ExprStmt" -> JExprStmt(translate_expr(stmt.expr))
      [] stmt.k = "Return" ->
           JReturn(IF stmt.value = NoExpr THEN JNone
                   ELSE translate_expr(stmt.value))

\* a block without a tail expression
translate_block_with_implicit_return(stmts) ==
    [i \in 1..Len(stmts) |-> translate_stmt(stmts[i])]

\* ---- the JavaScript the emitted statements denote.  A value is a record
\* whose field ty names its type; an environment maps the names in scope to
\* values; a completion is normal, a return or a throw
Undefined == [ty |-> "undefined"]
Num(n) == [ty |-> "num", n |-> n]
Bool(b) == [ty |-> "bool", b |-> b]
ErrorValue == [ty |-> "Error"]
ErrorCtor == [ty |-> "function", name |-> "Error"]
JsNormal(v) == [c |-> "normal", v |-> v]
JsReturn(v) == [c |-> "return", v |-> v]
JsThrow(err) == [c |-> "throw", v |-> err]

Truthy(v) ==
    CASE v.ty = "undefined" -> FALSE
      [] v.ty = "bool" -> v.b
      [] v.ty = "num" -> v.n # 0
      [] OTHER -> TRUE

Bind(env, name, v) == (name :> v) @@ env

RECURSIVE Js(_, _, _)

js_expr(e, env) ==
    CASE e.k = "JNone" -> JsNormal(Undefined)
      [] e.k = "JLit" -> JsNormal(e.value)
      [] e.k = "JIdent" ->
           IF e.name \in DOMAIN env THEN JsNormal(env[e.name])
           ELSE JsThrow([ty |-> "ReferenceError"])
      [] e.k = "JMember" ->
           LET o == Js("expr", e.obj, env)
           IN  IF o.c # "normal" THEN o
               ELSE IF o.v.ty = "undefined" THEN JsThrow([ty |-> "TypeError"])
               ELSE IF e.prop \in DOMAIN o.v THEN JsNormal(o.v[e.prop])
               ELSE JsNormal(Undefined)
      [] e.k = "JBin" ->
           LET l == Js("expr", e.left, env)
           IN  IF l.c # "normal" THEN l
               ELSE IF e.op = "&&"
               THEN IF Truthy(l.v) THEN Js("expr", e.right, env) ELSE l
               ELSE LET r == Js("expr", e.right, env)
                    IN  IF r.c # "normal" THEN r
                        ELSE IF e.op = "==="
                        THEN JsNormal(Bool(l.v = r.v))
                        ELSE \* instanceof
                             JsNormal(Bool(r.v = ErrorCtor /\ l.v.ty = "Error"))
      [] e.k = "JIife" ->
           LET r == Js("stmts", e.stmts, env)
           IN  CASE r.c = "return" -> JsNormal(r.v)
                 [] r.c = "throw" -> r
                 [] OTHER -> JsNormal(Undefined)

\* a statement list in a scope of its own: a `const` is in scope for the
\* statements after it, and is gone after the list
js_stmts(stmts, env) ==
    IF stmts = <<>> THEN JsNormal(Undefined)
    ELSE LET s == Head(stmts)
             rest == Tail(stmts)
         IN  CASE s.k = "JConst" ->
                    LET r == Js("expr", s.init, env)
                    IN  IF r.c # "normal" THEN r
                        ELSE Js("stmts", rest, Bind(env, s.name, r.v))
               [] s.k = "JReturn" ->
                    LET r == Js("expr", s.arg, env)
                    IN  IF r.c # "normal" THEN r ELSE JsReturn(r.v)
               [] s.k = "JExpr" ->
                    LET r == Js("expr", s.expr, env)
                    IN  IF r.c # "normal" THEN r ELSE Js("stmts", rest, env)
               [] s.k = "JIf" ->
                    LET t == Js("expr", s.test, env)
                        b == IF Truthy(t.v) THEN Js("stmts", <<s.cons>>, env)
                             ELSE IF s.alt = JNone THEN JsNormal(Undefined)
                             ELSE Js("stmts", <<s.alt>>, env)
                    IN  IF t.c # "normal" THEN t
                        ELSE IF b.c # "normal" THEN b
                        ELSE Js("stmts", rest, env)
               [] s.k = "JBlock" ->
                    LET b == Js("stmts", s.stmts, env)
                    IN  IF b.c # "normal" THEN b ELSE Js("stmts", rest, env)

Js(fn, x, env) ==
    CASE fn = "expr" -> js_expr(x, env)
      [] fn = "stmts" -> js_stmts(x, env)

\* the call f(arg) of `function f(v) { stmts }` at module level
js_call(stmts, arg) ==
    LET r == Js("stmts", stmts, Bind(Bind(<<>>, "Error", ErrorCtor), "v", arg))
    IN  IF r.c = "normal" THEN JsReturn(Undefined) ELSE r

\* ---- the functions lowered: `fn f(v) { return match v { arms } }` with up
\* to MaxArms arms, the arm at index i with the body 10 + i, and three
\* functions that use `v?`
MaxArms == 2

GuardEq(name) == BinaryExpr("Eq", Ident(name, 0), IntLit(1))

ArmHeads ==
    { <<PLiteral(IntLit(0)), NoExpr>>,
      <<PLiteral(IntLit(1)), GuardEq("v")>>,
      <<PIdent("n"), NoExpr>>,
      <<PIdent("n"), GuardEq("n")>>,
      <<PWildcard, NoExpr>>,
      <<PEnum("A", <<"x">>), NoExpr>>,
      <<PEnum("A", <<"x">>), GuardEq("x")>> }

MatchFns ==
    { <<ReturnStmt(MatchExpr(Ident("v", 0),
            [i \in 1..Len(h) |->
               GuardedArm(h[i][1], h[i][2], IntLit(10 + i))]))>> :
        h \in UNION {[1..len -> ArmHeads] : len \in 1..MaxArms} }

PropagateFns ==
    LET e == ErrorPropagateExpr(Ident("v", 0))
    IN  { <<VarDecl("Let", "y", NoType, e, 0), ReturnStmt(IntLit(7))>>,
          <<VarDecl("Let", "y", NoType, e, 0), ReturnStmt(Ident("y", 0))>>,
          <<ReturnStmt(e)>> }

EnumValue(tag, x) == [ty |-> "object", tag |-> [ty |-> "str", s |-> tag], x |-> x]

ArgValues ==
    { Num(0), Num(1), EnumValue("A", Num(0)), EnumValue("A", Num(1)),
      EnumValue("B", Num(1)), ErrorValue }

LowerInit ==
    /\ x_fn \in MatchFns \cup PropagateFns
    /\ x_arg \in ArgValues
    /\ x_js = <<>>
    /\ x_out = JsNormal(Undefined)
    /\ x_pc = "run"

\* translate_fn_decl: the body of the emitted function
TranslateFnDecl ==
    /\ x_pc = "run"
    /\ x_js' = translate_block_with_implicit_return(x_fn)
    /\ x_pc' = "lowered"
    /\ UNCHANGED <<x_fn, x_arg, x_out>>
    /\ UNCHANGED notLower

\* the emitted function is called with x_arg
CallJs ==
    /\ x_pc = "lowered"
    /\ x_out' = js_call(x_js, x_arg)
    /\ x_pc' = "done"
    /\ UNCHANGED <<x_fn, x_arg, x_js>>
    /\ UNCHANGED notLower

LowerIdle ==
    /\ x_fn = <<>>
    /\ x_arg = Undefined
    /\ x_js = <<>>
    /\ x_out = JsNormal(Undefined)
    /\ x_pc = "idle"

\* ======================================================================
\* ag-cli (src/crates/ag-cli/src/main.rs): resolve_std_imports
\* ======================================================================

\* ---- a path is its characters; Item::Import with the names of a
\* selective import (none for a whole-module or namespace import)
Import(names, path) == [k |-> "Import", names |-> names, path |-> path]
StdPrefix == <<"s", "t", "d", ":">>
starts_with(path, prefix) ==
    Len(path) >= Len(prefix) /\ SubSeq(path, 1, Len(prefix)) = prefix
IsStdImport(item) == item.k = "Import" /\ starts_with(item.path, StdPrefix)

\* ---- ag_stdlib::resolve_std_module followed by ag_parser::parse: the
\* items of the module named by std_path, or NoModule.  The module sources
\* are not part of src/; two modules stand for them, each with extern
\* declarations, one of them with an item that is not an extern declaration
NoModule == [k |-> "None"]
StdExtern(k, name, from) == [k |-> k, name |-> name, from |-> from]
resolve_std_module(std_path) ==
    CASE std_path = <<"l">> ->
           [k |-> "Some", diagnostics |-> <<>>,
            items |-> <<StdExtern("ExternFnDecl", "info", "l"),
                        StdExtern("ExternStructDecl", "Logger", "l"),
                        StdExtern("FnDecl", "helper", "l")>>]
      [] std_path = <<"f">> ->
           [k |-> "Some", diagnostics |-> <<>>,
            items |-> <<StdExtern("ExternFnDecl", "read", "f"),
                        StdExtern("ExternTypeDecl", "File", "f")>>]
      [] OTHER -> NoModule

IsExternDecl(item) ==
    item.k \in {"ExternFnDecl", "ExternStructDecl", "ExternTypeDecl"}

\* the items a whole-module import injects
AllExterns(items) == SelectSeq(items, IsExternDecl)

\* the items a selective import injects
SelectiveItems_All(items, names) == AllExterns(items)

SelectiveItems(items, names) ==
    LET Requested(item) ==
            IsExternDecl(item) /\ \E i \in 1..Len(names) : names[i] = item.name
    IN  SelectSeq(items, Requested)

\* std_imports: the indices of the `std:` imports of module.items
StdIndices(items) == {i \in 1..Len(items) : IsStdImport(items[i])}
RECURSIVE SortedIndices(_)
SortedIndices(S) ==
    IF S = {} THEN <<>>
    ELSE LET m == CHOOSE x \in S : \A y \in S : x <= y
         IN  <<m>> \o SortedIndices(S \ {m})
std_imports(items) == SortedIndices(StdIndices(items))

\* ---- the modules given to resolve_std_imports: up to MaxModItems items
MaxModItems == 3

StdItemPool ==
    { Import(<<>>, StdPrefix \o <<"l">>),
      Import(<<"info">>, StdPrefix \o <<"l">>),
      Import(<<"Logger", "nope">>, StdPrefix \o <<"l">>),
      Import(<<"read">>, StdPrefix \o <<"l">>),
      Import(<<>>, StdPrefix \o <<"f">>),
      Import(<<>>, StdPrefix \o <<"z">>),
      Import(<<"u">>, <<".", "/", "u">>),
      Import(<<>>, <<"s", "t", "d">>),
      Decl("FnDecl", "main", 0),
      Decl("ExternFnDecl", "info", 0) }

StdInit ==
    /\ s_in \in UNION {[1..n -> StdItemPool] : n \in 0..MaxModItems}
    /\ s_items = s_in
    /\ s_i = 1
    /\ s_injected = <<>>
    /\ s_errors = <<>>
    /\ s_pc = "run"

\* one iteration of `for (_, imp) in &std_imports`
ResolveOneImport ==
    /\ s_pc = "run"
    /\ s_i <= Len(std_imports(s_items))
    /\ LET imp == s_items[std_imports(s_items)[s_i]]
           std_path == SubSeq(imp.path, 5, Len(imp.path))
           parsed == resolve_std_module(std_path)
       IN  IF parsed = NoModule
           THEN /\ s_errors' = Append(s_errors, <<"unknown module", std_path>>)
                /\ UNCHANGED s_injected
           ELSE IF parsed.diagnostics # <<>>
           THEN /\ s_errors' = s_errors \o
                       [d \in 1..Len(parsed.diagnostics) |->
                          <<"error in stdlib module", std_path>>]
                /\ UNCHANGED s_injected
           ELSE IF imp.names # <<>>
           THEN LET injected == s_injected \o
                                  SelectiveItems(parsed.items, imp.names)
                    available == {injected[j].name : j \in 1..Len(injected)}
                    unknown == SelectSeq(imp.names,
                                         LAMBDA n : n \notin available)
                IN  /\ s_injected' = injected
                    /\ s_errors' = s_errors \o
                           [j \in 1..Len(unknown) |->
                              <<"not exported", unknown[j], std_path>>]
           ELSE /\ s_injected' = s_injected \o AllExterns(parsed.items)
                /\ UNCHANGED s_errors
    /\ s_i' = s_i + 1
    /\ UNCHANGED <<s_in, s_items, s_pc>>
    /\ UNCHANGED notStd

\* after the loop: Err(errors), or the std imports are removed and the
\* injected declarations prepended
ResolveReturn ==
    /\ s_pc = "run"
    /\ s_i > Len(std_imports(s_items))
    /\ IF s_errors # <<>>
       THEN /\ s_pc' = "err"
            /\ UNCHANGED s_items
       ELSE /\ s_pc' = "ok"
            /\ s_items' = s_injected \o
                 SelectSeq(s_items, LAMBDA item : ~IsStdImport(item))
    /\ UNCHANGED <<s_in, s_i, s_injected, s_errors>>
    /\ UNCHANGED notStd

StdIdle ==
    /\ s_in = <<>>
    /\ s_items = <<>>
    /\ s_i = 0
    /\ s_injected = <<>>
    /\ s_errors = <<>>
    /\ s_pc = "idle"

\* ======================================================================
\* ag-parser: the sub-lexer of parse_dsl_block
\* ======================================================================
\* parse_dsl_block makes a Lexer over the source from the opening fence on,
\* calls enter_dsl_raw_mode and then next_token until DslBlockEnd, Eof or
\* Error.  The sub-lexer is the lexer's variables; tokens is the stream.

\* Source fragments of a DSL block body
DslFragments ==
    { <<"a">>, <<"nl">>, <<"sp">>, <<"hs", "lb">>, <<"lb">>, <<"rb">>,
      <<"nl", "bt", "bt", "bt">>, <<"bt", "bt", "bt">>, <<"q">>, <<"bt">>,
      <<"bt", "dl", "lb">> }

\* what the sub-lexer's source starts with (it begins at a token of the
\* outer lexer): a fence line, a fence line with trailing text, a fence
\* whose line goes on into the body, or no fence at all
DslOpenings ==
    { <<"bt", "bt", "bt", "nl">>, <<"bt", "bt", "bt", "a", "nl">>,
      <<"bt", "bt", "bt">>, <<"a">> }

MaxDslFrags == 3

DslSources ==
    {o \o Flatten(fs) : o \in DslOpenings, fs \in SeqsUpTo(DslFragments, MaxDslFrags)}

\* Lexer::new on the rest of the source
SubLexerInit ==
    /\ source \in DslSources
    /\ pos = 0
    /\ template_depth_stack = <<>>
    /\ dsl_raw_mode = FALSE
    /\ dsl_capture_depth = 0
    /\ dsl_block_start_pos = 0
    /\ tokens = <<>>
    /\ lex_pc = "dsl_new"

\* sub_lexer.enter_dsl_raw_mode()
EnterDslRawMode ==
    /\ lex_pc = "dsl_new"
    /\ LET r == enter_dsl_raw_mode(source, pos, template_depth_stack,
                                   dsl_capture_depth)
       IN  IF r.panic
           THEN /\ lex_pc' = "panic"
                /\ UNCHANGED <<pos, dsl_raw_mode, dsl_block_start_pos, tokens>>
           ELSE /\ pos' = r.pos
                /\ dsl_raw_mode' = r.raw
                /\ dsl_block_start_pos' =
                       IF r.kind = "DslBlockStart" THEN r.start
                       ELSE dsl_block_start_pos
                /\ tokens' = Append(tokens, Token(r))
                /\ lex_pc' = IF r.kind = "Error" THEN "done" ELSE "dsl_run"
    /\ UNCHANGED <<source, template_depth_stack, dsl_capture_depth>>
    /\ UNCHANGED notLex

\* one iteration of the loop around sub_lexer.next_token()
SubLexerNext ==
    /\ lex_pc = "dsl_run"
    /\ LET r == next_token(source, pos, template_depth_stack, dsl_raw_mode,
                           dsl_capture_depth, dsl_block_start_pos)
       IN  IF r.panic
           THEN /\ lex_pc' = "panic"
                /\ UNCHANGED <<pos, template_depth_stack, dsl_raw_mode,
                               dsl_capture_depth, tokens>>
           ELSE /\ pos' = r.pos
                /\ template_depth_stack' = r.stack
                /\ dsl_raw_mode' = r.raw
                /\ dsl_capture_depth' = r.cap
                /\ tokens' = Append(tokens, Token(r))
                /\ lex_pc' = IF r.kind \in {"DslBlockEnd", "Eof", "Error"}
                             THEN "done" ELSE "dsl_run"
    /\ UNCHANGED <<source, dsl_block_start_pos>>
    /\ UNCHANGED notLex

\* the lexer as tokenize runs it, or as parse_dsl_block runs it
AnyLexerInit == LexInit \/ SubLexerInit

\* ======================================================================
\* ag-parser: template strings
\* ======================================================================

\* ---- the tokens at and after a template token: TemplateNoSub or
\* TemplateHead first, then up to MaxTplToks identifiers and template
\* continuations; the text of a template token is empty or not
TplTok(kind, text) == [kind |-> kind, text |-> text]
TplTexts == {"", "t"}
TplRest ==
    {TplTok("Ident", "a")}
      \cup {TplTok(k, s) : k \in {"TemplateMiddle", "TemplateTail"}, s \in TplTexts}

MaxTplToks == 4

TplInputs ==
    {<<TplTok("TemplateNoSub", s)>> : s \in TplTexts}
      \cup {<<TplTok("TemplateHead", s)>> \o rest :
              s \in TplTexts, rest \in SeqsUpTo(TplRest, MaxTplToks)}

TplKinds(toks) == [i \in 1..Len(toks) |-> toks[i].kind]

\* TemplatePart::String and TemplatePart::Expr
StringPart(s) == [k |-> "String", s |-> s]
ExprPart == [k |-> "Expr"]

\* `if !s.is_empty() { parts.push(TemplatePart::String(s)) }`
PushNonEmpty(parts, s) == IF s # "" THEN Append(parts, StringPart(s)) ELSE parts

TplInit ==
    /\ t_tokens \in TplInputs
    /\ t_pos = 0
    /\ t_diagnostics = <<>>
    /\ t_parts = <<>>
    /\ t_pc = "primary"

\* parse_primary at TemplateNoSub or TemplateHead, up to the loop of
\* parse_template_string
ParsePrimaryTemplate ==
    /\ t_pc = "primary"
    /\ LET tok == t_tokens[t_pos + 1]
       IN  IF tok.kind = "TemplateNoSub"
           THEN /\ t_parts' = <<StringPart(tok.text)>>
                /\ t_pc' = "some"
           ELSE /\ t_parts' = PushNonEmpty(<<>>, tok.text)
                /\ t_pc' = "loop"
    /\ t_pos' = t_pos + 1
    /\ UNCHANGED <<t_tokens, t_diagnostics>>
    /\ UNCHANGED notTpl

\* one iteration of the loop of parse_template_string
ParseTemplateStep ==
    /\ t_pc = "loop"
    /\ LET kinds == TplKinds(t_tokens)
           expr == parse_expr(kinds, t_pos, t_diagnostics, 0)
           k == PKind(kinds, expr.pos)
           parts == Append(t_parts, ExprPart)
       IN  IF ~expr.ok
           THEN /\ t_pc' = "none"
                /\ t_pos' = expr.pos
                /\ t_diagnostics' = expr.diags
                /\ UNCHANGED t_parts
           ELSE IF k \in {"TemplateTail", "TemplateMiddle"}
           THEN /\ t_parts' = PushNonEmpty(parts, t_tokens[expr.pos + 1].text)
                /\ t_pos' = PAdvance(kinds, expr.pos)
                /\ t_diagnostics' = expr.diags
                /\ t_pc' = IF k = "TemplateTail" THEN "some" ELSE "loop"
           ELSE /\ t_parts' = parts
                /\ t_pos' = expr.pos
                /\ t_diagnostics' = PError(kinds, expr.pos, expr.diags)
                /\ t_pc' = "some"
    /\ UNCHANGED t_tokens
    /\ UNCHANGED notTpl

TplIdle ==
    /\ t_tokens = <<>>
    /\ t_pos = 0
    /\ t_diagnostics = <<>>
    /\ t_parts = <<>>
    /\ t_pc = "idle"

\* ======================================================================
\* ag-dsl-server (src/crates/ag-dsl-server/src/validator.rs): validate
\* ======================================================================

\* ---- PathSegment, Route; a String is the sequence of its pieces
SegLiteral(s) == [k |-> "Literal", s |-> s]
SegParam(s) == [k |-> "Param", s |-> s]
SegWildcard == [k |-> "Wildcard"]
Route(method, path, handler_capture) ==
    [method |-> method, path |-> path, handler_capture |-> handler_capture]
NoPort == [k |-> "None"]
SomePort(n) == [k |-> "Some", n |-> n]

method_name(method) ==
    CASE method = "Get" -> "GET"
      [] method = "Post" -> "POST"
      [] method = "Put" -> "PUT"
      [] method = "Delete" -> "DELETE"
      [] method = "Patch" -> "PATCH"

RECURSIVE format_path_from(_, _)
format_path_from(segments, i) ==
    IF i > Len(segments) THEN <<>>
    ELSE LET seg == segments[i]
         IN  <<"/">>
               \o (CASE seg.k = "Literal" -> <<seg.s>>
                     [] seg.k = "Param" -> <<":", seg.s>>
                     [] seg.k = "Wildcard" -> <<"*">>)
               \o format_path_from(segments, i + 1)

format_path(segments) ==
    IF segments = <<>> THEN <<"/">> ELSE format_path_from(segments, 1)

ServerDiagnostic(message, severity) == [message |-> message, severity |-> severity]

\* the test of the duplicate check with the method left out
SameRoute_PathOnly(a, b) == a.path = b.path

\* `a.method == b.method && a.path == b.path`
SameRoute(a, b) == a.method = b.method /\ a.path = b.path

\* the inner loop of the duplicate check: j from `from` to the last route
RECURSIVE DuplicatesOf(_, _, _)
DuplicatesOf(routes, i, from) ==
    IF from > Len(routes) THEN <<>>
    ELSE (IF SameRoute(routes[i], routes[from])
          THEN <<ServerDiagnostic(<<"duplicate route: ", method_name(routes[i].method), " ">>
                                    \o format_path(routes[i].path), "Error")>>
          ELSE <<>>)
           \o DuplicatesOf(routes, i, from + 1)

\* the wildcard check of one route
RECURSIVE WildcardsOf(_, _)
WildcardsOf(route, i) ==
    IF i > Len(route.path) THEN <<>>
    ELSE (IF route.path[i] = SegWildcard /\ i # Len(route.path)
          THEN <<ServerDiagnostic(<<"wildcard must be the last path segment in ",
                                    method_name(route.method), " ">>
                                    \o format_path(route.path), "Error")>>
          ELSE <<>>)
           \o WildcardsOf(route, i + 1)

validate(template) ==
    LET routes == template.routes
    IN  (IF routes = <<>>
         THEN <<ServerDiagnostic(<<"no routes defined">>, "Warning")>> ELSE <<>>)
          \o (IF template.port = SomePort(0)
              THEN <<ServerDiagnostic(<<"port must not be 0">>, "Error")>> ELSE <<>>)
          \o Flatten([i \in 1..Len(routes) |-> DuplicatesOf(routes, i, i + 1)])
          \o Flatten([i \in 1..Len(routes) |-> WildcardsOf(routes[i], 1)])

\* ---- the templates given to validate: up to MaxRoutes routes
MaxRoutes == 3

ServerPaths ==
    { <<>>, <<SegLiteral("users")>>, <<SegLiteral("users"), SegParam("id")>>,
      <<SegLiteral("users"), SegParam("name")>>,
      <<SegWildcard, SegLiteral("users")>> }

ServerTemplates ==
    { [routes |-> [i \in 1..Len(rs) |-> Route(rs[i][1], rs[i][2], i - 1)],
       port |-> port] :
        rs \in SeqsUpTo({"Get", "Post"} \X ServerPaths, MaxRoutes),
        port \in {NoPort, SomePort(0), SomePort(80)} }

ServerInit ==
    /\ v_template \in ServerTemplates
    /\ v_diagnostics = <<>>
    /\ v_pc = "run"

ValidateServer ==
    /\ v_pc = "run"
    /\ v_diagnostics' = validate(v_template)
    /\ v_pc' = "done"
    /\ UNCHANGED v_template
    /\ UNCHANGED notServer

ServerIdle ==
    /\ v_template = [routes |-> <<>>, port |-> NoPort]
    /\ v_diagnostics = <<>>
    /\ v_pc = "idle"

\* ======================================================================
\* ag-dsl-prompt (src/crates/ag-dsl-prompt/src): lexer, parser, validator
\* ======================================================================

\* ---- a text is a sequence of units: "@", a blank "sp", a newline "nl",
\* a punctuation character ".", or a maximal run of alphanumeric
\* characters (a word).  A DslPart is a text or the capture marker
PromptWords == {"role", "messages", "user", "x"}
IsWord(u) == u \in PromptWords
CapturePart == [k |-> "Capture"]
TextPart(text) == [k |-> "Text", text |-> text]

\* ---- PromptToken.  A directive token also records where its `@` stood
\* (the part and the index in it): the properties read it, the parser does
\* not
PDirectiveRole(name, part, at) ==
    [kind |-> "DirectiveRole", name |-> name, part |-> part, at |-> at]
PDirectiveMessages(part, at) ==
    [kind |-> "DirectiveMessages", part |-> part, at |-> at]
PText(s) == [kind |-> "Text", s |-> s]
PCapture(idx) == [kind |-> "Capture", idx |-> idx]
PEof == [kind |-> "Eof"]

flush_text(current_text, toks) ==
    IF current_text # <<>> THEN Append(toks, PText(current_text)) ELSE toks

\* the index after the blanks at i
RECURSIVE SkipBlanks(_, _)
SkipBlanks(text, i) ==
    IF i <= Len(text) /\ text[i] = "sp" THEN SkipBlanks(text, i + 1) ELSE i

\* the index of the first newline at or after i, Len(text) + 1 without one
RECURSIVE LineEnd(_, _)
LineEnd(text, i) ==
    IF i <= Len(text) /\ text[i] # "nl" THEN LineEnd(text, i + 1) ELSE i

\* str::trim on a run of units
RECURSIVE TrimUnits(_)
TrimUnits(s) ==
    IF s # <<>> /\ Head(s) \in {"sp", "nl"} THEN TrimUnits(Tail(s))
    ELSE IF s # <<>> /\ Last(s) \in {"sp", "nl"} THEN TrimUnits(Front(s))
    ELSE s

\* the loop of lex_text over the text of part number `part`
RECURSIVE LexTextLoop(_, _, _, _, _, _)
LexTextLoop(part, text, i, current_text, at_line_start, toks) ==
    IF i > Len(text) THEN flush_text(current_text, toks)
    ELSE LET ch == text[i]
             lookahead == IF i + 1 <= Len(text) /\ IsWord(text[i + 1])
                          THEN text[i + 1] ELSE ""
             \* the index after `@` and the characters of the directive
             after == IF lookahead = "" THEN i + 1 ELSE i + 2
         IN  IF ch = "@" /\ at_line_start
             THEN CASE lookahead = "role" ->
                         LET from == SkipBlanks(text, after)
                             end == LineEnd(text, from)
                             role_name == SubSeq(text, from, end - 1)
                         IN  LexTextLoop(part, text,
                                 IF end <= Len(text) THEN end + 1 ELSE end, <<>>, TRUE,
                                 Append(flush_text(current_text, toks),
                                        PDirectiveRole(TrimUnits(role_name), part, i)))
                    [] lookahead = "messages" ->
                         LET end == LineEnd(text, after)
                         IN  LexTextLoop(part, text,
                                 IF end <= Len(text) THEN end + 1 ELSE end, <<>>, TRUE,
                                 Append(flush_text(current_text, toks),
                                        PDirectiveMessages(part, i)))
                    [] OTHER ->
                         LexTextLoop(part, text, i + 1, Append(current_text, ch),
                                     FALSE, toks)
             ELSE IF ch = "nl"
             THEN LexTextLoop(part, text, i + 1, Append(current_text, ch), TRUE, toks)
             ELSE LexTextLoop(part, text, i + 1, Append(current_text, ch),
                              at_line_start /\ ch = "sp", toks)

lex_text(part, text, toks) == LexTextLoop(part, text, 1, <<>>, TRUE, toks)

\* the loop of lex over the parts from part number n on
RECURSIVE LexParts(_, _, _, _)
LexParts(parts, n, capture_index, toks) ==
    IF n > Len(parts) THEN Append(toks, PEof)
    ELSE IF parts[n].k = "Text"
    THEN LexParts(parts, n + 1, capture_index, lex_text(n, parts[n].text, toks))
    ELSE LexParts(parts, n + 1, capture_index + 1,
                  Append(toks, PCapture(capture_index)))

lex(parts) == LexParts(parts, 1, 0, <<>>)

\* ---- the parser: PromptSection, Parser::peek, collect_body
RoleSection(role, body) == [k |-> "Role", role |-> role, body |-> body]
MessagesSection(capture_index) ==
    [k |-> "Messages", capture_index |-> capture_index]

PromptPeek(toks, p) == IF p < Len(toks) THEN toks[p + 1] ELSE PEof

\* the first loop of collect_body: the body and the position after it
RECURSIVE CollectParts(_, _, _)
CollectParts(toks, p, body) ==
    IF PromptPeek(toks, p).kind \in {"Text", "Capture"}
    THEN CollectParts(toks, p + 1, Append(body, PromptPeek(toks, p)))
    ELSE [body |-> body, pos |-> p]

\* the second loop of collect_body
RECURSIVE TrimBody(_)
TrimBody(body) ==
    IF body # <<>> /\ Last(body).kind = "Text" /\ TrimUnits(Last(body).s) = <<>>
    THEN TrimBody(Front(body))
    ELSE body

collect_body(toks, p) ==
    LET r == CollectParts(toks, p, <<>>)
    IN  [body |-> TrimBody(r.body), pos |-> r.pos]

\* the loop of parse_template
RECURSIVE PromptLoop(_, _, _, _)
PromptLoop(toks, p, sections, diags) ==
    LET tok == PromptPeek(toks, p)
    IN  CASE tok.kind = "Eof" -> [sections |-> sections, diagnostics |-> diags]
          [] tok.kind = "DirectiveRole" ->
               LET b == collect_body(toks, p + 1)
               IN  PromptLoop(toks, b.pos,
                              Append(sections, RoleSection(tok.name, b.body)), diags)
          [] tok.kind = "DirectiveMessages" ->
               IF PromptPeek(toks, p + 1).kind = "Capture"
               THEN PromptLoop(toks, p + 2,
                        Append(sections,
                               MessagesSection(PromptPeek(toks, p + 1).idx)),
                        diags)
               ELSE PromptLoop(toks, p + 1, sections,
                        Append(diags, [message |-> "expected capture expression after @messages",
                                       severity |-> "Error"]))
          [] OTHER -> PromptLoop(toks, p + 1, sections, diags)

\* Ok(template) is the record with no diagnostics
parse_template(toks) ==
    LET implicit == collect_body(toks, 0)
        r == PromptLoop(toks, implicit.pos,
                        IF implicit.body # <<>>
                        THEN <<RoleSection(<<"system">>, implicit.body)>> ELSE <<>>,
                        <<>>)
    IN  IF r.sections = <<>>
        THEN [sections |-> <<>>,
              diagnostics |-> Append(r.diagnostics,
                                     [message |-> "empty prompt template",
                                      severity |-> "Error"])]
        ELSE r

NoRoleWarning ==
    [message |-> "no @role directive; content assigned to implicit system role",
     severity |-> "Warning"]

validate_prompt(sections) ==
    LET has_explicit_role == \E i \in 1..Len(sections) : sections[i].k = "Role"
    IN  IF ~has_explicit_role THEN <<NoRoleWarning>> ELSE <<>>

\* ---- the blocks given to the handler: up to MaxPromptFrags fragments; a
\* capture fragment splits the text into parts
MaxPromptFrags == 3

PromptFragments ==
    { <<"@", "role", "sp", "user", "nl">>, <<"@", "messages">>, <<"@", "x">>,
      <<"sp">>, <<"nl">>, <<".">>, <<"#">> }

\* the parts of a flat sequence of units, "#" standing for a capture
RECURSIVE PartsOf(_, _)
PartsOf(units, text) ==
    IF units = <<>> THEN IF text = <<>> THEN <<>> ELSE <<TextPart(text)>>
    ELSE IF Head(units) = "#"
    THEN (IF text = <<>> THEN <<>> ELSE <<TextPart(text)>>)
           \o <<CapturePart>> \o PartsOf(Tail(units), <<>>)
    ELSE PartsOf(Tail(units), Append(text, Head(units)))

PromptBlocks ==
    {PartsOf(Flatten(fs), <<>>) : fs \in SeqsUpTo(PromptFragments, MaxPromptFrags)}

PromptInit ==
    /\ pr_parts \in PromptBlocks
    /\ pr_tokens = <<>>
    /\ pr_sections = <<>>
    /\ pr_diagnostics = <<>>
    /\ pr_pc = "lex"

\* handle, step 1: lexer::lex(parts)
PromptLex ==
    /\ pr_pc = "lex"
    /\ pr_tokens' = lex(pr_parts)
    /\ pr_pc' = "parse"
    /\ UNCHANGED <<pr_parts, pr_sections, pr_diagnostics>>
    /\ UNCHANGED notPrompt

\* handle, step 2: parser::parse; an Err ends handle
PromptParse ==
    /\ pr_pc = "parse"
    /\ LET r == parse_template(pr_tokens)
       IN  /\ pr_sections' = r.sections
           /\ pr_diagnostics' = r.diagnostics
           /\ pr_pc' = IF r.diagnostics # <<>> THEN "err" ELSE "validate"
    /\ UNCHANGED <<pr_parts, pr_tokens>>
    /\ UNCHANGED notPrompt

\* handle, step 3: validator::validate(&template)
PromptValidate ==
    /\ pr_pc = "validate"
    /\ pr_diagnostics' = validate_prompt(pr_sections)
    /\ pr_pc' = "done"
    /\ UNCHANGED <<pr_parts, pr_tokens, pr_sections>>
    /\ UNCHANGED notPrompt

PromptIdle ==
    /\ pr_parts = <<>>
    /\ pr_tokens = <<>>
    /\ pr_sections = <<>>
    /\ pr_diagnostics = <<>>
    /\ pr_pc = "idle"

\* ======================================================================
\* ag-parser: parse on a source with an inline DSL block
\* ======================================================================

\* ---- the sources: the block's name (the `@` and the kind before it are
\* left out), the opening fence line, a body of up to MaxBodyFrags
\* fragments, the closing fence at the start of a line, and what follows
DslBodyFragments ==
    { <<"a">>, <<"sp">>, <<"nl">>, <<"bt">>, <<"q">>, <<"lb">>, <<"rb">>,
      <<"dl", "lb">>, <<"sl", "sl">>, <<"sl", "st">>, <<"bs">>, <<"hs", "lb">> }

DslTails == { <<>>, <<"nl", "a">>, <<"sp", "1", "nl", "a">> }

MaxBodyFrags == 2

DslBlockSources ==
    { <<"a", "sp", "bt", "bt", "bt", "nl">> \o Flatten(fs)
        \o <<"nl", "bt", "bt", "bt">> \o tail :
        fs \in SeqsUpTo(DslBodyFragments, MaxBodyFrags), tail \in DslTails }

DslInit ==
    /\ source \in DslBlockSources
    /\ pos = 0
    /\ template_depth_stack = <<>>
    /\ dsl_raw_mode = FALSE
    /\ dsl_capture_depth = 0
    /\ dsl_block_start_pos = 0
    /\ tokens = <<>>
    /\ lex_pc = "run"
    /\ d_tokens = <<>>
    /\ d_pos = 0
    /\ d_dsl_tokens = <<>>
    /\ d_end_byte = 0
    /\ d_pc = "lex"

\* the filter of parse: comments are dropped
FilterComments(toks) ==
    SelectSeq(toks, LAMBDA tok :
        tok.kind \notin {"LineComment", "BlockComment", "DocComment"})

\* parse, after Lexer::tokenize returned: the filter and Parser::new
ParserNew ==
    /\ d_pc = "lex"
    /\ lex_pc = "done"
    /\ d_tokens' = FilterComments(tokens)
    /\ d_pos' = 0
    /\ d_pc' = "block"
    /\ UNCHANGED <<d_dsl_tokens, d_end_byte>>
    /\ UNCHANGED notDsl

\* Parser::peek_token
PeekToken(toks, p) == toks[Min(p, Len(toks) - 1) + 1]

\* the loop around sub_lexer.next_token(): dsl_tokens
RECURSIVE SubLexerLoop(_, _, _, _, _, _, _)
SubLexerLoop(src, p, stack, raw, cap, block_start, toks) ==
    LET r == next_token(src, p, stack, raw, cap, block_start)
    IN  IF r.kind \in {"DslBlockEnd", "Eof", "Error"} THEN Append(toks, Token(r))
        ELSE SubLexerLoop(src, r.pos, r.stack, r.raw, r.cap, block_start,
                          Append(toks, Token(r)))

\* the loop that skips the main tokens that start before end_byte
RECURSIVE SkipPast(_, _, _)
SkipPast(toks, p, end_byte) ==
    IF p < Len(toks) /\ toks[p + 1].start < end_byte
    THEN SkipPast(toks, p + 1, end_byte)
    ELSE p

\* parse_dsl_block from the block's name on, for an inline block
ParseDslBlock ==
    /\ d_pc = "block"
    /\ LET p == d_pos + 1                                   \* the name
           byte_offset == PeekToken(d_tokens, p).start
           remaining == SubSeq(source, byte_offset + 1, Len(source))
           start_tok == enter_dsl_raw_mode(remaining, 0, <<>>, 0)
           dsl_toks == SubLexerLoop(remaining, start_tok.pos, <<>>, TRUE, 0,
                                    start_tok.start, <<>>)
           end_byte == byte_offset + Last(dsl_toks).end
       IN  IF start_tok.kind = "Error"
           THEN /\ d_pc' = "none"
                /\ d_pos' = p
                /\ UNCHANGED <<d_dsl_tokens, d_end_byte>>
           ELSE /\ d_pc' = "some"
                /\ d_dsl_tokens' = dsl_toks
                /\ d_end_byte' = end_byte
                /\ d_pos' = SkipPast(d_tokens, p, end_byte)
    /\ UNCHANGED d_tokens
    /\ UNCHANGED notDsl

DslIdle ==
    /\ d_tokens = <<>>
    /\ d_pos = 0
    /\ d_dsl_tokens = <<>>
    /\ d_end_byte = 0
    /\ d_pc = "idle"

\* ======================================================================
\* ag-parser: the capture branch of parse_dsl_block
\* ======================================================================
\* The tokens between DslCaptureStart and DslCaptureEnd, with an Eof
\* pushed after them, are handed to a new Parser; parse_expr(0) runs on it.

CaptureInputs == ParseInputs

\* the outer parser's diagnostics before the capture: none, or one
OuterDiagnostics == {<<>>, <<0>>}

CaptureInit ==
    /\ cp_tokens \in CaptureInputs
    /\ cp_sub_diagnostics = <<>>
    /\ cp_diagnostics \in OuterDiagnostics
    /\ cp_parts = <<>>
    /\ cp_pc = "run"

\* what the capture branch does with the sub-parser's result: on Some the
\* capture part is pushed, on None the diagnostics are taken over
MergeCapture(r, diags) == IF r.ok THEN diags ELSE diags \o r.diags

\* Parser::new(capture_tokens, ..), sub_parser.parse_expr(0) and the
\* `if let Some(expr) .. else ..` after it
ParseCapture ==
    /\ cp_pc = "run"
    /\ LET r == parse_expr(cp_tokens, 0, <<>>, 0)
       IN  IF r.hang
           THEN /\ cp_pc' = "hang"
                /\ UNCHANGED <<cp_sub_diagnostics, cp_diagnostics, cp_parts>>
           ELSE /\ cp_sub_diagnostics' = r.diags
                /\ cp_diagnostics' = MergeCapture(r, cp_diagnostics)
                /\ cp_parts' = IF r.ok THEN Append(cp_parts, "Capture") ELSE cp_parts
                /\ cp_pc' = "done"
    /\ UNCHANGED cp_tokens
    /\ UNCHANGED notCapture

CaptureIdle ==
    /\ cp_tokens = <<>>
    /\ cp_sub_diagnostics = <<>>
    /\ cp_diagnostics = <<>>
    /\ cp_parts = <<>>
    /\ cp_pc = "idle"

\* ======================================================================
\* an enum pattern: Checker::bind_pattern and the bindings ag-codegen emits
\* ======================================================================

\* ---- the inputs: the enum E with the variant V of up to MaxFields fields
\* named a, b, .. of type int or str, and a pattern E::V(..) or E::W(..)
\* with up to MaxFields distinct bindings
MaxFields == 2

FieldNames == <<"a", "b", "c", "d">>
BindingNames == {FieldNames[i] : i \in 1..(MaxFields + 1)}

IsInjective(s) == \A i, j \in 1..Len(s) : s[i] = s[j] => i = j

VariantFields ==
    { fs \in SeqsUpTo({FieldNames[i] : i \in 1..MaxFields} \X {TInt, TStr},
                      MaxFields) :
        IsInjective([i \in 1..Len(fs) |-> fs[i][1]]) }

EnumPatterns ==
    { PEnum(v, bs) : v \in {"V", "W"},
        bs \in {s \in SeqsUpTo(BindingNames, MaxFields) : IsInjective(s)} }

\* a value of the variant: an object with the tag and a property per
\* declared field; the field at position i holds a value of its type that
\* differs from the values of the other fields
FieldValue(i, ty) ==
    IF ty = TInt THEN Num(i) ELSE [ty |-> "str", s |-> FieldNames[i]]

VariantValue(variant, fields) ==
    [n \in {"ty", "tag"} \cup {fields[i][1] : i \in 1..Len(fields)} |->
       IF n = "ty" THEN "object"
       ELSE IF n = "tag" THEN [ty |-> "str", s |-> variant]
       ELSE LET i == CHOOSE i \in 1..Len(fields) : fields[i][1] = n
            IN  FieldValue(i, fields[i][2])]

PatternInit ==
    /\ pb_subject_ty \in {TEnum("E", <<<<"V", fs>>>>) : fs \in VariantFields}
    /\ pb_pattern \in EnumPatterns
    /\ pb_scope = Scope_child(Scope_new)
    /\ pb_js = <<>>
    /\ pb_read = <<>>
    /\ pb_pc = "run"

\* check_match: self.bind_pattern(&arm.pattern, &subject_ty) in the scope
\* made for the arm
BindPattern ==
    /\ pb_pc = "run"
    /\ pb_scope' = bind_pattern(pb_scope, pb_pattern, pb_subject_ty)
    /\ pb_pc' = "bound"
    /\ UNCHANGED <<pb_subject_ty, pb_pattern, pb_js, pb_read>>
    /\ UNCHANGED notPattern

\* translate_match: translate_pattern_to_condition(&arm.pattern, "_match")
TranslatePattern ==
    /\ pb_pc = "bound"
    /\ pb_js' = translate_pattern_to_condition(pb_pattern, "_match")
    /\ pb_pc' = "lowered"
    /\ UNCHANGED <<pb_subject_ty, pb_pattern, pb_scope, pb_read>>
    /\ UNCHANGED notPattern

\* the emitted arm runs on a value of the variant the pattern names: the
\* condition is evaluated, and when it holds the initializer of each
\* `const binding = ..`
RunArm ==
    /\ pb_pc = "lowered"
    /\ LET fields == pb_subject_ty.variants[1][2]
           env == "_match" :> VariantValue("V", fields)
           cond == js_expr(pb_js[1], env)
       IN  pb_read' = IF cond.c = "normal" /\ Truthy(cond.v)
                      THEN [i \in 1..Len(pb_js[2]) |->
                              js_expr(pb_js[2][i][2], env).v]
                      ELSE <<>>
    /\ pb_pc' = "done"
    /\ UNCHANGED <<pb_subject_ty, pb_pattern, pb_scope, pb_js>>
    /\ UNCHANGED notPattern

PatternIdle ==
    /\ pb_subject_ty = TNil
    /\ pb_pattern = PWildcard
    /\ pb_scope = <<>>
    /\ pb_js = <<>>
    /\ pb_read = <<>>
    /\ pb_pc = "idle"

\* ======================================================================
\* await: from Checker::check_fn_decl to translate_fn_decl
\* ======================================================================

\* ---- the functions: `fn f(p: any) { stmts }` or `async fn f(p: any)
\* { stmts }` with up to MaxAsyncStmts statements that use `await p`
\* directly, under `?`, in a match arm and in an arrow
AwaitP == AwaitExpr(Ident("p", 0), 0)

AsyncStmts ==
    { ExprStmt(AwaitP),
      ReturnStmt(Ident("p", 0)),
      VarDecl("Let", "y", NoType, AwaitP, 0),
      ExprStmt(ErrorPropagateExpr(AwaitP)),
      ExprStmt(MatchExpr(Ident("p", 0),
                         <<GuardedArm(PWildcard, NoExpr, AwaitP)>>)),
      ExprStmt(MatchExpr(AwaitP,
                         <<GuardedArm(PWildcard, NoExpr, Ident("p", 0))>>)),
      ExprStmt(ArrowExpr(<<>>, AwaitP, FALSE, 0)) }

MaxAsyncStmts == 2

\* no statement declares y twice
AsyncBodies ==
    { b \in SeqsUpTo(AsyncStmts, MaxAsyncStmts) :
        Cardinality({i \in 1..Len(b) : b[i].k = "VarDecl"}) <= 1 }

AsyncFns ==
    { FnDecl("f", <<Param("p", Named("any"), NoExpr, 0)>>, NoType,
             Block(b, NoExpr, 0), is_async, 0) :
        b \in AsyncBodies, is_async \in BOOLEAN }

AsyncInit ==
    /\ a_fn \in AsyncFns
    /\ a_diagnostics = <<>>
    /\ a_js = <<>>
    /\ a_pc = "run"

\* check_module on the module whose one item is a_fn; cmd_build goes on to
\* codegen only when the checker has no diagnostics
AsyncChecked(st) ==
    /\ a_diagnostics' = st.diagnostics
    /\ a_pc' = IF st.diagnostics = <<>> THEN "checked" ELSE "rejected"

CheckAsyncFn ==
    /\ a_pc = "run"
    /\ AsyncChecked(check_item(register_item(Checker(Scope_new, <<>>, {}, FALSE),
                                             a_fn), a_fn))
    /\ UNCHANGED <<a_fn, a_js>>
    /\ UNCHANGED notAsync

\* translate_fn_decl: is_async is the declaration's, the body is lowered
TranslateAsyncFn ==
    /\ a_pc = "checked"
    /\ a_js' = [is_async |-> a_fn.is_async,
                body |-> translate_block_with_implicit_return(a_fn.body.stmts)]
    /\ a_pc' = "done"
    /\ UNCHANGED <<a_fn, a_diagnostics>>
    /\ UNCHANGED notAsync

AsyncIdle ==
    /\ a_fn = <<>>
    /\ a_diagnostics = <<>>
    /\ a_js = <<>>
    /\ a_pc = "idle"

\* ======================================================================
\* Specifications
\* ======================================================================

InitLex ==
    LexInit /\ ParseIdle /\ BuildIdle /\ CheckIdle /\ CompatIdle /\
    CodegenIdle /\ LowerIdle /\ StdIdle /\ TplIdle /\ ServerIdle /\
    PromptIdle /\ DslIdle /\ CaptureIdle /\ PatternIdle /\ AsyncIdle

NextLex == Tokenize

SpecLex == InitLex /\ [][NextLex]_vars

InitParse ==
    ParseInit /\ LexIdle /\ BuildIdle /\ CheckIdle /\ CompatIdle /\
    CodegenIdle /\ LowerIdle /\ StdIdle /\ TplIdle /\ ServerIdle /\
    PromptIdle /\ DslIdle /\ CaptureIdle /\ PatternIdle /\ AsyncIdle

NextParse == ParseItemStep \/ ParseModuleReturn

SpecParse == InitParse /\ [][NextParse]_vars

InitBuild ==
    BuildInit /\ LexIdle /\ ParseIdle /\ CheckIdle /\ CompatIdle /\
    CodegenIdle /\ LowerIdle /\ StdIdle /\ TplIdle /\ ServerIdle /\
    PromptIdle /\ DslIdle /\ CaptureIdle /\ PatternIdle /\ AsyncIdle

NextBuild ==
    BuildParse \/ BuildResolve \/ BuildCheck \/ BuildCodegen \/ BuildWrite

SpecBuild == InitBuild /\ [][NextBuild]_vars

InitCheck ==
    CheckInit /\ LexIdle /\ ParseIdle /\ BuildIdle /\ CompatIdle /\
    CodegenIdle /\ LowerIdle /\ StdIdle /\ TplIdle /\ ServerIdle /\
    PromptIdle /\ DslIdle /\ CaptureIdle /\ PatternIdle /\ AsyncIdle

NextCheck == RegisterItem \/ CheckItem

SpecCheck == InitCheck /\ [][NextCheck]_vars

InitCodegen ==
    CodegenInit /\ LexIdle /\ ParseIdle /\ BuildIdle /\ CheckIdle /\
    CompatIdle /\ LowerIdle /\ StdIdle /\ TplIdle /\ ServerIdle /\
    PromptIdle /\ DslIdle /\ CaptureIdle /\ PatternIdle /\ AsyncIdle

NextCodegen == TranslateModule

SpecCodegen == InitCodegen /\ [][NextCodegen]_vars

InitCompat ==
    CompatInit /\ LexIdle /\ ParseIdle /\ BuildIdle /\ CheckIdle /\
    CodegenIdle /\ LowerIdle /\ StdIdle /\ TplIdle /\ ServerIdle /\
    PromptIdle /\ DslIdle /\ CaptureIdle /\ PatternIdle /\ AsyncIdle

NextCompat == TypeCompatible

SpecCompat == InitCompat /\ [][NextCompat]_vars

InitLower ==
    LowerInit /\ LexIdle /\ ParseIdle /\ BuildIdle /\ CheckIdle /\
    CompatIdle /\ CodegenIdle /\ StdIdle /\ TplIdle /\ ServerIdle /\
    PromptIdle /\ DslIdle /\ CaptureIdle /\ PatternIdle /\ AsyncIdle

NextLower == TranslateFnDecl \/ CallJs

SpecLower == InitLower /\ [][NextLower]_vars

InitStd ==
    StdInit /\ LexIdle /\ ParseIdle /\ BuildIdle /\ CheckIdle /\
    CompatIdle /\ CodegenIdle /\ LowerIdle /\ TplIdle /\ ServerIdle /\
    PromptIdle /\ DslIdle /\ CaptureIdle /\ PatternIdle /\ AsyncIdle

NextStd == ResolveOneImport \/ ResolveReturn

SpecStd == InitStd /\ [][NextStd]_vars

InitAnyLexer ==
    AnyLexerInit /\ ParseIdle /\ BuildIdle /\ CheckIdle /\ CompatIdle /\
    CodegenIdle /\ LowerIdle /\ StdIdle /\ TplIdle /\ ServerIdle /\
    PromptIdle /\ DslIdle /\ CaptureIdle /\ PatternIdle /\ AsyncIdle

NextAnyLexer == Tokenize \/ EnterDslRawMode \/ SubLexerNext

SpecAnyLexer == InitAnyLexer /\ [][NextAnyLexer]_vars

InitTpl ==
    TplInit /\ LexIdle /\ ParseIdle /\ BuildIdle /\ CheckIdle /\
    CompatIdle /\ CodegenIdle /\ LowerIdle /\ StdIdle /\ ServerIdle /\
    PromptIdle /\ DslIdle /\ CaptureIdle /\ PatternIdle /\ AsyncIdle

NextTpl == ParsePrimaryTemplate \/ ParseTemplateStep

SpecTpl == InitTpl /\ [][NextTpl]_vars

InitServer ==
    ServerInit /\ LexIdle /\ ParseIdle /\ BuildIdle /\ CheckIdle /\
    CompatIdle /\ CodegenIdle /\ LowerIdle /\ StdIdle /\ TplIdle /\
    PromptIdle /\ DslIdle /\ CaptureIdle /\ PatternIdle /\ AsyncIdle

NextServer == ValidateServer

SpecServer == InitServer /\ [][NextServer]_vars

InitPrompt ==
    PromptInit /\ LexIdle /\ ParseIdle /\ BuildIdle /\ CheckIdle /\
    CompatIdle /\ CodegenIdle /\ LowerIdle /\ StdIdle /\ TplIdle /\
    ServerIdle /\ DslIdle /\ CaptureIdle /\ PatternIdle /\ AsyncIdle

NextPrompt == PromptLex \/ PromptParse \/ PromptValidate

SpecPrompt == InitPrompt /\ [][NextPrompt]_vars

InitDsl ==
    DslInit /\ ParseIdle /\ BuildIdle /\ CheckIdle /\ CompatIdle /\
    CodegenIdle /\ LowerIdle /\ StdIdle /\ TplIdle /\ ServerIdle /\
    PromptIdle /\ CaptureIdle /\ PatternIdle /\ AsyncIdle

NextDsl == Tokenize \/ ParserNew \/ ParseDslBlock

SpecDsl == InitDsl /\ [][NextDsl]_vars

InitCapture ==
    CaptureInit /\ LexIdle /\ ParseIdle /\ BuildIdle /\ CheckIdle /\
    CompatIdle /\ CodegenIdle /\ LowerIdle /\ StdIdle /\ TplIdle /\
    ServerIdle /\ PromptIdle /\ DslIdle /\ PatternIdle /\ AsyncIdle

NextCapture == ParseCapture

SpecCapture == InitCapture /\ [][NextCapture]_vars

InitPattern ==
    PatternInit /\ LexIdle /\ ParseIdle /\ BuildIdle /\ CheckIdle /\
    CompatIdle /\ CodegenIdle /\ LowerIdle /\ StdIdle /\ TplIdle /\
    ServerIdle /\ PromptIdle /\ DslIdle /\ CaptureIdle /\ AsyncIdle

NextPattern == BindPattern \/ TranslatePattern \/ RunArm

SpecPattern == InitPattern /\ [][NextPattern]_vars

InitAsync ==
    AsyncInit /\ LexIdle /\ ParseIdle /\ BuildIdle /\ CheckIdle /\
    CompatIdle /\ CodegenIdle /\ LowerIdle /\ StdIdle /\ TplIdle /\
    ServerIdle /\ PromptIdle /\ DslIdle /\ CaptureIdle /\ PatternIdle

NextAsync == CheckAsyncFn \/ TranslateAsyncFn

SpecAsync == InitAsync /\ [][NextAsync]_vars

InitScope ==
    ScopeInit /\ LexIdle /\ ParseIdle /\ BuildIdle /\ CompatIdle /\
    CodegenIdle /\ LowerIdle /\ StdIdle /\ TplIdle /\ ServerIdle /\
    PromptIdle /\ DslIdle /\ CaptureIdle /\ PatternIdle /\ AsyncIdle

NextScope == RegisterItem \/ CheckItem

SpecScope == InitScope /\ [][NextScope]_vars

InitCall ==
    CallInit /\ LexIdle /\ ParseIdle /\ BuildIdle /\ CompatIdle /\
    CodegenIdle /\ LowerIdle /\ StdIdle /\ TplIdle /\ ServerIdle /\
    PromptIdle /\ DslIdle /\ CaptureIdle /\ PatternIdle /\ AsyncIdle

NextCall == RegisterItem \/ CheckItem

SpecCall == InitCall /\ [][NextCall]_vars

InitRecompile ==
    CodegenInit /\ LexIdle /\ ParseIdle /\ BuildIdle /\ CheckIdle /\
    CompatIdle /\ LowerIdle /\ StdIdle /\ TplIdle /\ ServerIdle /\
    PromptIdle /\ DslIdle /\ CaptureIdle /\ PatternIdle /\ AsyncIdle

NextRecompile == TranslateModule \/ TranslateAgain

SpecRecompile == InitRecompile /\ [][NextRecompile]_vars

\* ======================================================================
\* Properties
\* ======================================================================

\* the parts of the lexer property
LexNoPanic == lex_pc # "panic"

LexEndsWithEof ==
    lex_pc = "done" =>
        /\ tokens # <<>>
        /\ Last(tokens).kind = "Eof"
        /\ \A i \in 1..(Len(tokens) - 1) : tokens[i].kind # "Eof"

LexProgress == (tokens' # tokens /\ lex_pc' = "run") => pos' > pos

\* C1: tokenize never panics, every next_token call that does not return the
\* end-of-file token moves the position forward, and when tokenize returns
\* the token vector ends with the end-of-file token (and holds no other one).
C1_TokenizeTerminates ==
    [][LexNoPanic' /\ LexEndsWithEof' /\ LexProgress]_vars

\* C1 witness: tokenize returned on an input holding an unterminated string,
\* an unterminated template, an unknown character or a non-ASCII character
C1_Witness ==
    /\ lex_pc = "done"
    /\ Len(tokens) >= 3
    /\ \E i \in 1..Len(tokens) : tokens[i].kind = "Error"
    /\ \E i \in 1..Len(source) : source[i] = "u1"

\* C2: parse returns for every input, and every parse failure (a step that
\* records a diagnostic) leaves the token cursor strictly further on, also
\* at `}` and at the item-start keywords synchronize does not consume.
C2_RecoveryAdvances ==
    [][(p_diagnostics' # p_diagnostics) => (p_pos' > p_pos /\ p_pc' # "hang")]_vars

\* s is a prefix of t; the stage reports an error in this run
IsPrefix(s, t) == Len(s) <= Len(t) /\ \A i \in 1..Len(s) : s[i] = t[i]

StageErrors(stage) ==
    CASE stage \in {"parse", "resolve", "check"} -> b_in[stage] > 0
      [] stage = "codegen" -> b_in.codegen_panics
      [] stage = "write" -> b_in.write_fails

\* C3: the stages of a build run in the order parse, std-import resolution,
\* check, codegen, emit; a stage runs only if every earlier stage reported no
\* error, so the output file exists only in runs without an error, and after
\* a stage reported an error nothing more runs and nothing is written.
C3_StagesInOrder ==
    /\ IsPrefix(b_log, BuildStages)
    /\ \A i \in 1..Len(b_log) : \A j \in 1..(i - 1) : ~StageErrors(b_log[j])
    /\ b_written =>
          /\ b_log = BuildStages
          /\ \A j \in 1..Len(BuildStages) : ~StageErrors(BuildStages[j])

\* C3 witness: the check stage reported diagnostics; the run stopped there
\* with exit(1), codegen and emit did not run
C3_Witness ==
    /\ b_pc = "exit1"
    /\ b_in.check > 0
    /\ b_log = <<"parse", "resolve", "check">>
    /\ ~b_written

\* C9: type_compatible follows the union rule in both positions: an expected
\* Union(A,B) accepts every actual compatible with A or with B; an actual
\* Union(C,D) is accepted only if C and D are both compatible with expected;
\* and an actual Union(C,D) is accepted by an expected Union(A,B) whenever
\* each of C and D is compatible with A or with B.
C9_UnionRule ==
    tc_pc = "done" =>
        /\ (/\ tc_expected.t = "Union"
            /\ \/ type_compatible(tc_expected.a, tc_actual)
               \/ type_compatible(tc_expected.b, tc_actual))
           => tc_result
        /\ (tc_actual.t = "Union" /\ tc_result)
           => /\ type_compatible(tc_expected, tc_actual.a)
              /\ type_compatible(tc_expected, tc_actual.b)
        /\ (/\ tc_expected.t = "Union"
            /\ tc_actual.t = "Union"
            /\ \A m \in {tc_actual.a, tc_actual.b} :
                  \/ type_compatible(tc_expected.a, m)
                  \/ type_compatible(tc_expected.b, m))
           => tc_result

\* C4: when check returns, an await expression has the diagnostic "await can
\* only be used inside async functions" exactly when the nearest function
\* around it (a fn declaration or an arrow function) is not async or there
\* is none.
C4_AwaitNeedsAsync ==
    c_pc = "done" =>
        \A a \in ModuleSites(c_module, "await") :
            HasDiag({"await outside async"}, {a.span}) <=> ~a.ok

\* C5: when check returns, every identifier reference whose name is defined
\* in none of the scopes around it has the diagnostic "undefined variable".
C5_UnboundDiagnosed ==
    c_pc = "done" =>
        \A r \in ModuleSites(c_module, "ident") :
            (\A d \in ModuleSites(c_module, "decl") :
                ~(d.name = r.name /\ \E i \in 1..Len(r.chain) : r.chain[i] = d.scope))
            => HasDiag({"undefined variable"}, {r.span})

\* the definitions that share their name and scope with another one
Duplicates(module, s) ==
    {d \in ModuleSites(module, s) :
        \E e \in ModuleSites(module, s) :
            e.span # d.span /\ e.name = d.name /\ e.scope = d.scope}

DuplicateMsgs == {"duplicate declaration", "duplicate binding"}

\* C6: when check returns, two definitions of one name in the same scope
\* have a duplicate diagnostic (at one of them), and a definition that is
\* alone with its name in its scope has none.
C6_DuplicatesDiagnosed ==
    c_pc = "done" =>
        \A s \in {"decl", "alias"} :
            \A d \in ModuleSites(c_module, s) :
                IF d \in Duplicates(c_module, s)
                THEN HasDiag(DuplicateMsgs,
                             {e.span : e \in {x \in Duplicates(c_module, s) :
                                                x.name = d.name /\ x.scope = d.scope}})
                ELSE ~HasDiag(DuplicateMsgs, {d.span})

\* C7: when check returns, a function with a declared return type T has the
\* diagnostic "return type mismatch" if a literal its body returns (the tail
\* expression, the value of a `ret`, or nil for a body without a value) is
\* not compatible with T.
C7_ReturnsChecked ==
    c_pc = "done" =>
        \A r \in ModuleSites(c_module, "ret") :
            (/\ r.node.k = "Literal"
             /\ ~type_compatible(resolve_type(Checker(Scope_new, <<>>, {}, FALSE), r.ty),
                                 r.node.ty))
            => HasDiag({"return type mismatch"}, {r.span})

\* the fn declaration a call names, if the name is defined once in the module
CalleeDecls(module, call) ==
    {module[i] : i \in {j \in 1..Len(module) :
        /\ module[j].k = "FnDecl"
        /\ call.callee.k = "Ident"
        /\ module[j].name = call.callee.name
        /\ Cardinality({d \in ModuleSites(module, "decl") :
                            d.name = call.callee.name}) = 1}}

\* C8: when check returns, a call of the one function declared with the
\* callee's name has the diagnostic "expected N arguments" if the number of
\* arguments differs from the number of parameters, and an argument
\* diagnostic if a literal argument is not compatible with its parameter.
C8_CallsChecked ==
    c_pc = "done" =>
        \A c \in ModuleSites(c_module, "call") :
            \A f \in CalleeDecls(c_module, c.node) :
                /\ Len(c.node.args) # Len(f.params)
                     => HasDiag({"expected arguments"}, {c.span})
                /\ \A i \in 1..Min(Len(c.node.args), Len(f.params)) :
                     (/\ c.node.args[i].k = "Literal"
                      /\ ~type_compatible(
                             resolve_type(Checker(Scope_new, <<>>, {}, FALSE),
                                          f.params[i].ty),
                             c.node.args[i].ty))
                     => HasDiag({"argument mismatch"}, {c.span})

\* the imports hold a specifier `name` from `path`
Imported(name, path) ==
    \E i \in 1..Len(g_imports) :
        /\ g_imports[i].src = path
        /\ \E j \in 1..Len(g_imports[i].specifiers) :
              g_imports[i].specifiers[j] = name

\* C10: in the output of codegen, an extern with a `@js` module has a named
\* import from that module exactly when its name is referenced somewhere in
\* the module (parameter defaults of functions and arrow functions and the
\* endpoints of match patterns included), and no module path has two import
\* statements.
C10_ImportIffReferenced ==
    g_pc = "done" =>
        /\ \A n \in 1..Len(g_module) :
              (g_module[n].k = "ExternFnDecl" /\ g_module[n].js_module # "")
              => (Imported(g_module[n].name, g_module[n].js_module)
                    <=> \E r \in ModuleSites(g_module, "ident") :
                            r.name = g_module[n].name)
        /\ \A i, j \in 1..Len(g_imports) :
              i # j => g_imports[i].src # g_imports[j].src

\* ---- what a match means: a pattern against a value, the names the
\* pattern binds, and a guard evaluated over those names and the names of
\* the enclosing function
PatternMatches(pattern, v) ==
    CASE pattern.k = "Literal" -> v = Num(pattern.lit.value)
      [] pattern.k = "Enum" -> v.ty = "object" /\ v.tag.s = pattern.variant
      [] OTHER -> TRUE

PatternBindings(pattern, v, env) ==
    CASE pattern.k = "Ident" -> Bind(env, pattern.name, v)
      [] pattern.k = "Enum" ->
           [n \in DOMAIN env \cup {pattern.bindings[i] :
                                     i \in 1..Len(pattern.bindings)} |->
              IF \E i \in 1..Len(pattern.bindings) : pattern.bindings[i] = n
              THEN v[n] ELSE env[n]]
      [] OTHER -> env

\* the guards are `name == 1`
GuardHolds(guard, env) ==
    guard = NoExpr \/ env[guard.left.name] = Num(guard.right.value)

ArmApplies(arm, v) ==
    /\ PatternMatches(arm.pattern, v)
    /\ GuardHolds(arm.guard, PatternBindings(arm.pattern, v, "v" :> v))

\* the first arm in source order that applies, 0 when none does
FirstArm(arms, v) ==
    IF \E i \in 1..Len(arms) : ArmApplies(arms[i], v)
    THEN CHOOSE i \in 1..Len(arms) :
           /\ ArmApplies(arms[i], v)
           /\ \A j \in 1..(i - 1) : ~ArmApplies(arms[j], v)
    ELSE 0

\* C11: a match takes the first arm in source order whose pattern matches
\* the subject and whose guard, evaluated with the names the pattern binds,
\* is true: the call returns that arm's body
C11_GuardWithBindings ==
    (x_pc = "done" /\ x_fn \in MatchFns) =>
        LET arms == x_fn[1].value.arms
            i == FirstArm(arms, x_arg)
        IN  i # 0 => x_out = JsReturn(Num(10 + i))

\* the statement with `e?` replaced by e
WithoutPropagate(stmt) ==
    CASE stmt.k = "VarDecl" /\ stmt.init.k = "ErrorPropagate" ->
           [stmt EXCEPT !.init = stmt.init.expr]
      [] stmt.k = "Return" /\ stmt.value.k = "ErrorPropagate" ->
           [stmt EXCEPT !.value = stmt.value.expr]
      [] OTHER -> stmt

\* C12: when e is an Error, the function that evaluates `e?` returns that
\* Error and runs nothing after it; otherwise `e?` has the value of e
C12_ErrorPropagates ==
    (x_pc = "done" /\ x_fn \in PropagateFns) =>
        IF x_arg.ty = "Error" THEN x_out = JsReturn(x_arg)
        ELSE x_out = js_call(translate_block_with_implicit_return(
                        [i \in 1..Len(x_fn) |-> WithoutPropagate(x_fn[i])]),
                        x_arg)

\* the items of s_items at the positions S, in order
ItemsAt(S) ==
    LET idx == SortedIndices(S) IN [j \in 1..Len(idx) |-> s_items[idx[j]]]

\* item is an extern declaration of the std module of one of the module's
\* std imports, and that import is whole-module or names the item
TakenFromStd(item) ==
    \E j \in StdIndices(s_in) :
        LET imp == s_in[j]
            parsed == resolve_std_module(SubSeq(imp.path, 5, Len(imp.path)))
        IN  /\ parsed # NoModule
            /\ \E n \in 1..Len(parsed.items) : parsed.items[n] = item
            /\ IsExternDecl(item)
            /\ imp.names = <<>> \/ \E n \in 1..Len(imp.names) : imp.names[n] = item.name

\* every extern declaration a std import asks for is among the items added
AllRequestedAdded(added) ==
    \A j \in StdIndices(s_in) :
        LET imp == s_in[j]
            parsed == resolve_std_module(SubSeq(imp.path, 5, Len(imp.path)))
        IN  \A n \in 1..Len(parsed.items) :
                LET item == parsed.items[n]
                IN  (/\ IsExternDecl(item)
                     /\ imp.names = <<>> \/ \E m \in 1..Len(imp.names) : imp.names[m] = item.name)
                    => item \in added

\* C13: after resolve_std_imports returns Ok, no import of a `std:` path is
\* left, the original items other than those imports are all there in their
\* original order, and every other item is an extern declaration of an
\* imported std module: all its externs for a whole-module import, the
\* named ones for a selective import
C13_StdImportsSpliced ==
    s_pc = "ok" =>
        /\ \A i \in 1..Len(s_items) : ~IsStdImport(s_items[i])
        /\ \E S \in SUBSET (1..Len(s_items)) :
             LET added == {s_items[i] : i \in (1..Len(s_items)) \ S}
             IN  /\ ItemsAt(S) = SelectSeq(s_in, LAMBDA item : ~IsStdImport(item))
                 /\ \A item \in added : TakenFromStd(item)
                 /\ AllRequestedAdded(added)

\* a selective and a whole-module std import around an item that stays
C13_Witness ==
    /\ s_pc = "ok"
    /\ \E i, j \in StdIndices(s_in) : s_in[i].names # <<>> /\ s_in[j].names = <<>>
    /\ \E i \in 1..Len(s_in) : ~IsStdImport(s_in[i])
    /\ Len(s_items) > Len(s_in)

\* every span lies in the source
SpansInSource ==
    \A i \in 1..Len(tokens) :
        0 <= tokens[i].start /\ tokens[i].start <= tokens[i].end
          /\ tokens[i].end <= Len(source)

\* the Error token of an unterminated DSL block: it spans the block from
\* its opening fence
IsUnterminatedDslError(i) ==
    /\ tokens[i].kind = "Error"
    /\ tokens[1].kind = "DslBlockStart"
    /\ tokens[i].start = tokens[1].start
    /\ tokens[i].end = Len(source)

\* C14 (as stated): in every token stream of the lexer each span lies in the
\* source and the span starts never decrease from one token to the next
C14_SpansMonotonic ==
    /\ SpansInSource
    /\ \A i \in 1..(Len(tokens) - 1) : tokens[i].start <= tokens[i + 1].start

\* C14 (amended): each span lies in the source, and the span starts never
\* decrease from one token to the next except at the Error token of an
\* unterminated DSL block, which starts at the block's opening fence
C14_SpansMonotonicButDslError ==
    /\ SpansInSource
    /\ \A i \in 1..(Len(tokens) - 1) :
         tokens[i].start <= tokens[i + 1].start \/ IsUnterminatedDslError(i + 1)

\* a DSL block with text and a capture that is not closed by a fence
C14_Witness ==
    /\ lex_pc = "done"
    /\ \E i, j \in 1..Len(tokens) :
         /\ tokens[i].kind = "DslText"
         /\ tokens[j].kind = "DslCaptureEnd"
    /\ IsUnterminatedDslError(Len(tokens))
    /\ tokens[Len(tokens) - 1].start > tokens[Len(tokens)].start

\* C15: the parts of every template-string node (here: of those parsed
\* without a diagnostic) are a non-empty sequence that begins and ends with
\* a string part and alternates string part, expression part, string part
C15_PartsAlternate ==
    (t_pc = "some" /\ t_diagnostics = <<>>) =>
        /\ t_parts # <<>>
        /\ t_parts[1].k = "String"
        /\ t_parts[Len(t_parts)].k = "String"
        /\ \A i \in 1..(Len(t_parts) - 1) : t_parts[i].k # t_parts[i + 1].k

\* the pairs of routes with the same method and the same segment list
DuplicatePairs ==
    {<<i, j>> \in (1..Len(v_template.routes)) \X (1..Len(v_template.routes)) :
        /\ i < j
        /\ v_template.routes[i].method = v_template.routes[j].method
        /\ v_template.routes[i].path = v_template.routes[j].path}

IsDuplicateRouteError(d) ==
    d.severity = "Error" /\ d.message[1] = "duplicate route: "

\* the text after "duplicate route: " for the route: `GET /users/:id`
RouteText(route) ==
    LET Seg(seg) == CASE seg.k = "Literal" -> <<"/", seg.s>>
                      [] seg.k = "Param" -> <<"/", ":", seg.s>>
                      [] seg.k = "Wildcard" -> <<"/", "*">>
    IN  <<CASE route.method = "Get" -> "GET" [] route.method = "Post" -> "POST", " ">>
          \o (IF route.path = <<>> THEN <<"/">>
              ELSE Flatten([i \in 1..Len(route.path) |-> Seg(route.path[i])]))

\* C16: validate reports a "duplicate route" error exactly when two routes
\* have the same method and the same segment list, and every such error
\* names the method and the path of such a pair
C16_DuplicateRouteIff ==
    v_pc = "done" =>
        /\ (DuplicatePairs # {}) <=>
             (\E n \in 1..Len(v_diagnostics) : IsDuplicateRouteError(v_diagnostics[n]))
        /\ \A n \in 1..Len(v_diagnostics) :
             IsDuplicateRouteError(v_diagnostics[n]) =>
                \E pr \in DuplicatePairs :
                    Tail(v_diagnostics[n].message) = RouteText(v_template.routes[pr[1]])
        /\ \A pr \in DuplicatePairs :
             \E n \in 1..Len(v_diagnostics) :
                /\ IsDuplicateRouteError(v_diagnostics[n])
                /\ Tail(v_diagnostics[n].message) = RouteText(v_template.routes[pr[1]])

\* two routes that are duplicates, and a third with the same path under
\* another method
C16_Witness ==
    /\ v_pc = "done"
    /\ DuplicatePairs # {}
    /\ \E i, j \in 1..Len(v_template.routes) :
         /\ v_template.routes[i].path = v_template.routes[j].path
         /\ v_template.routes[i].method # v_template.routes[j].method
    /\ \E n \in 1..Len(v_diagnostics) : IsDuplicateRouteError(v_diagnostics[n])

\* the block has an explicit `@role` directive: the lexer found one
HasExplicitRole ==
    \E i \in 1..Len(pr_tokens) : pr_tokens[i].kind = "DirectiveRole"

\* C17: when the prompt pipeline has parsed and validated a block, the
\* warning "no @role directive; content assigned to implicit system role"
\* is among the validator's diagnostics exactly when the block has no
\* explicit `@role` directive
C17_NoRoleWarned ==
    pr_pc = "done" =>
        ((\E i \in 1..Len(pr_diagnostics) : pr_diagnostics[i] = NoRoleWarning)
           <=> ~HasExplicitRole)

\* the `@` of a directive token stands at column 0 of a line of the block:
\* it is the first character of the block, or the character before it is a
\* newline of the same text
AtColumnZero(tok) ==
    LET text == pr_parts[tok.part].text
    IN  IF tok.at = 1 THEN tok.part = 1 ELSE text[tok.at - 1] = "nl"

\* C18: every directive the prompt lexer recognises has its `@` at column 0
\* of a line; an `@role` or `@messages` after blanks, other text or a
\* capture on its line is not a directive token
C18_DirectiveAtColumnZero ==
    pr_pc # "lex" =>
        \A i \in 1..Len(pr_tokens) :
            pr_tokens[i].kind \in {"DirectiveRole", "DirectiveMessages"} =>
                AtColumnZero(pr_tokens[i])

\* C19: a line comment ends at the first line terminator, a bare `\r`
\* included: no comment token goes on after a `\r`
C19_CommentEndsAtCr ==
    \A n \in 1..Len(tokens) :
        tokens[n].kind \in {"LineComment", "DocComment"} =>
            \A i \in (tokens[n].start + 1)..(tokens[n].end - 1) : source[i] # "cr"

\* Lexer::tokenize as a function of the source
RECURSIVE TokenizeFrom(_, _, _, _)
TokenizeFrom(src, p, stack, toks) ==
    LET r == next_token(src, p, stack, FALSE, 0, 0)
    IN  IF r.kind = "Eof" THEN Append(toks, Token(r))
        ELSE TokenizeFrom(src, r.pos, r.stack, Append(toks, Token(r)))

\* the tokens of the source after byte `from`, with their spans in the
\* whole source
TokensAfter(from) ==
    LET toks == FilterComments(
                    TokenizeFrom(SubSeq(source, from + 1, Len(source)), 0, <<>>, <<>>))
    IN  [i \in 1..Len(toks) |->
           [kind |-> toks[i].kind, start |-> toks[i].start + from,
            end |-> toks[i].end + from]]

\* C20: when parse_dsl_block has parsed an inline block up to its closing
\* fence, the tokens left for the outer parser are the tokens of the source
\* text after the fence, whatever the body contains
C20_ResumesAfterFence ==
    (d_pc = "some" /\ Last(d_dsl_tokens).kind = "DslBlockEnd") =>
        SubSeq(d_tokens, d_pos + 1, Len(d_tokens)) = TokensAfter(d_end_byte)

\* the lexer is about to lex, in normal mode, a `}` for which the innermost
\* brace-depth counter is zero: the `}` that closes the interpolation
AtInterpolationClose ==
    /\ lex_pc = "run"
    /\ ~dsl_raw_mode
    /\ dsl_capture_depth = 0
    /\ template_depth_stack # <<>>
    /\ Last(template_depth_stack) = 0
    /\ Peek(source, skip_whitespace(source, pos)) = "rb"

\* C21: the `}` that would take the innermost counter negative closes the
\* interpolation, whether or not blanks precede it: the token lexed there
\* is a template-middle or a template-tail (or the error of a template that
\* is never closed), never a closing brace
C21_InterpolationCloses ==
    [][(AtInterpolationClose /\ lex_pc' # "panic") =>
          Last(tokens').kind \in {"TemplateMiddle", "TemplateTail", "Error"}]_vars

\* The brace nesting of a token stream, replayed from its kinds: inside a
\* capture, `{` and `${` open a level, `}` closes one.  ok is FALSE once a
\* DslCaptureEnd is lexed at a `}` that closes an inner level, or an inner
\* level's `}` is lexed where the capture's own `}` stands.
RECURSIVE CaptureReplay(_, _, _)
CaptureReplay(toks, i, st) ==
    IF i > Len(toks) THEN st
    ELSE LET k == toks[i].kind
             st1 ==
               IF k = "DslCaptureStart"
               THEN [st EXCEPT !.incap = TRUE, !.depth = 0]
               ELSE IF ~st.incap THEN st
               ELSE IF k \in {"LBrace", "TemplateHead"}
               THEN [st EXCEPT !.depth = @ + 1]
               ELSE IF k \in {"RBrace", "TemplateTail"}
               THEN IF st.depth = 0 THEN [st EXCEPT !.ok = FALSE]
                    ELSE [st EXCEPT !.depth = @ - 1]
               ELSE IF k = "DslCaptureEnd"
               THEN [st EXCEPT !.incap = FALSE, !.ok = @ /\ st.depth = 0]
               ELSE IF k = "Error"
               THEN [st EXCEPT !.incap = FALSE]
               ELSE st
         IN  CaptureReplay(toks, i + 1, st1)

CaptureEndsMatch(toks) ==
    CaptureReplay(toks, 1, [incap |-> FALSE, depth |-> 0, ok |-> TRUE]).ok

\* C22: DslCaptureEnd is lexed exactly at the `}` that matches the opening
\* `#{`: the braces of nested blocks and of template interpolations inside
\* the capture end it neither early nor late
C22_CaptureEndMatches == CaptureEndsMatch(tokens)

\* C23: every diagnostic the sub-parser recorded while parsing a capture is
\* among the outer parser's diagnostics afterwards, whether or not the
\* sub-parser returned an expression
C23_SubDiagnosticsMerged ==
    cp_pc = "done" =>
        \A i \in 1..Len(cp_sub_diagnostics) :
            \E j \in 1..Len(cp_diagnostics) :
                cp_diagnostics[j] = cp_sub_diagnostics[i]

\* C24: for a pattern E::V(b1, .., bn) on a value of variant V, the checker
\* gives bi the type of the i-th declared field of V, and the emitted code
\* reads for bi the value of that field, whatever identifier bi is
C24_BindingsPositional ==
    (pb_pc = "done" /\ pb_pattern.variant = "V") =>
        LET fields == pb_subject_ty.variants[1][2]
            bs == pb_pattern.bindings
        IN  \A i \in 1..Min(Len(bs), Len(fields)) :
                /\ lookup(pb_scope, bs[i]).ty = fields[i][2]
                /\ pb_read[i] = FieldValue(i, fields[i][2])

\* an await in the JS node n whose nearest enclosing function is not async;
\* async tells whether the function n stands in is
RECURSIVE AwaitOutsideAsync(_, _)
AwaitOutsideAsync(n, async) ==
    CASE n.k = "JAwait" -> ~async \/ AwaitOutsideAsync(n.arg, async)
      [] n.k = "JIife" ->
           \E i \in 1..Len(n.stmts) : AwaitOutsideAsync(n.stmts[i], FALSE)
      [] n.k = "JArrow" -> AwaitOutsideAsync(n.body, n.is_async)
      [] n.k = "JConst" -> AwaitOutsideAsync(n.init, async)
      [] n.k = "JReturn" -> AwaitOutsideAsync(n.arg, async)
      [] n.k = "JExpr" -> AwaitOutsideAsync(n.expr, async)
      [] n.k = "JIf" ->
           \/ AwaitOutsideAsync(n.test, async)
           \/ AwaitOutsideAsync(n.cons, async)
           \/ AwaitOutsideAsync(n.alt, async)
      [] n.k = "JBlock" ->
           \E i \in 1..Len(n.stmts) : AwaitOutsideAsync(n.stmts[i], async)
      [] n.k = "JBin" ->
           AwaitOutsideAsync(n.left, async) \/ AwaitOutsideAsync(n.right, async)
      [] n.k = "JMember" -> AwaitOutsideAsync(n.obj, async)
      [] OTHER -> FALSE

\* C25: in the function emitted for a function the checker accepted, every
\* await stands directly in an async function
C25_AwaitInAsync ==
    a_pc = "done" =>
        \A i \in 1..Len(a_js.body) :
            ~AwaitOutsideAsync(a_js.body[i], a_js.is_async)

\* the number of import declarations of the body that declare name
DeclaringImports(name) ==
    Cardinality({i \in 1..Len(g_body) :
                    \E j \in 1..Len(g_body[i].specifiers) :
                        g_body[i].specifiers[j] = name})

\* C26: in the emitted module no identifier is declared by more than one
\* import declaration, for any number and order of DSL blocks and externs
C26_ImportedOnce ==
    g_pc = "done" =>
        \A i \in 1..Len(g_body) : \A j \in 1..Len(g_body[i].specifiers) :
            DeclaringImports(g_body[i].specifiers[j]) = 1

\* the names the items of the module declare in the module scope
ModuleNames ==
    {c_module[i].name : i \in {j \in 1..Len(c_module) :
                                  c_module[j].k \in {"FnDecl", "VarDecl"}}}

\* C27: between the items of check_module, and after it, the current scope
\* is the module scope, and it holds no binding made inside a function, an
\* arrow, a block, a match arm, a loop or a try/catch, also when the
\* construct recorded diagnostics
C27_ScopesBalanced ==
    /\ Len(c_scope) = 1
    /\ \A e \in c_scope[1] : e.name \in ModuleNames

\* check_module has returned for a module with a function and with
\* diagnostics recorded inside a construct
C27_Witness ==
    /\ c_pc = "done"
    /\ c_diagnostics # <<>>
    /\ \E i \in 1..Len(c_module) : c_module[i].k = "FnDecl"
    /\ \E i \in 1..Len(c_module) :
          c_module[i].k = "ExprStmt" /\ c_module[i].expr.k = "Match"

\* the names the std module at std_path declares as externs
ExternNames(std_path) ==
    LET parsed == resolve_std_module(std_path)
    IN  IF parsed = NoModule THEN {}
        ELSE {parsed.items[n].name :
                 n \in {m \in 1..Len(parsed.items) : IsExternDecl(parsed.items[m])}}

\* C28: when resolve_std_imports has returned, for every selective import
\* of a std module that exists, every requested name that is not an extern
\* of that module has its "is not exported by module" error, whatever the
\* std imports before it injected
C28_UnknownNameReported ==
    s_pc \in {"ok", "err"} =>
        \A j \in StdIndices(s_in) :
            LET imp == s_in[j]
                std_path == SubSeq(imp.path, 5, Len(imp.path))
            IN  resolve_std_module(std_path) # NoModule =>
                    \A n \in 1..Len(imp.names) :
                        imp.names[n] \notin ExternNames(std_path) =>
                            \E e \in 1..Len(s_errors) :
                                s_errors[e] = <<"not exported", imp.names[n], std_path>>

\* C29: after check(module), no "undefined variable" diagnostic is recorded
\* twice for the same identifier node: an undefined argument of a call, at
\* any depth of calls in call arguments, has its diagnostic exactly once
C29_ArgumentCheckedOnce ==
    c_pc = "done" =>
        \A i, j \in 1..Len(c_diagnostics) :
            (c_diagnostics[i].msg = "undefined variable"
               /\ c_diagnostics[i] = c_diagnostics[j]) => i = j

\* C30: compiling the same module once more yields the same import
\* declarations, with the specifiers of every merged import in the same order
C30_SameOutputAgain ==
    g_pc = "again" => g_body = g_prev

====
